---- MODULE Spec2Model ----
(***************************************************************************)
(* A model of the reference-counted COM wrapper of volume_shadow_copy:     *)
(* SafeCOMComponent (src/src/safe_com_component.rs), the handle that owns  *)
(* one reference to a foreign IUnknown object, with its clone, drop and    *)
(* query_interface operations, and the foreign object they call into.      *)
(*                                                                         *)
(* One lineage is modelled: the handle adopted by SafeCOMComponent::new    *)
(* and every handle made from it by clone or by a successful               *)
(* query_interface.  The type is neither Send nor Sync (it holds an Rc),   *)
(* so the operations of a lineage run one at a time; each operation is     *)
(* split at the places where it touches the foreign counter or the Rc, so  *)
(* that the states in between are states of the model.                     *)
(***************************************************************************)
EXTENDS Integers, FiniteSets, Sequences, TLC

(***************************************************************************)
(* Bounds of the model.                                                    *)
(***************************************************************************)
\* Width in bits of the foreign reference counter (ULONG, 32 in the program);
\* scaled down so that the overflow guard is reached by cloning.
Width == 2
\* How many foreign AddRef / QueryInterface calls a behaviour may make.
MaxCalls == 4

RECURSIVE Pow2(_)
Pow2(n) == IF n = 0 THEN 1 ELSE 2 * Pow2(n - 1)

\* u32::MAX at the model's width.
U32_MAX == Pow2(Width) - 1

\* Handle instances that may exist at once: one more than the counter can
\* count, so that an unguarded increment would show.
HandleIds == 1 .. (U32_MAX + 1)
\* Rc allocations: at most one for each handle.
RcIds == HandleIds

(***************************************************************************)
(* Values.                                                                 *)
(***************************************************************************)
S_OK == 0
E_NOINTERFACE == -2147467262
\* Statuses outside QueryInterface's documented contract: S_FALSE, E_FAIL.
OtherHResults == {1, -2147467259}
HResults == {S_OK, E_NOINTERFACE} \cup OtherHResults

\* The capability types (interfaces) a handle may be of or be queried for.
Interfaces == {"IVssBackupComponents", "IVssBackupComponentsEx"}

\* The type the factory's pointer is adopted as (BackupComponents::new).
AdoptedInterface == "IVssBackupComponents"

\* An empty OnceCell<Rc<()>>: no Rc has been created.
NoRc == 0

FreeHandle == [state |-> "free", iface |-> "none", comp |-> "null", cell |-> NoRc]

VARIABLES
    rawPtr,     \* the pointer handed to SafeCOMComponent::new: "null" or "comp"
    handles,    \* HandleIds -> [state, iface, comp, cell]: the SafeCOMComponent values
    rcs,        \* RcIds -> strong count of that Rc<()> (0: not allocated)
    foreign,    \* the foreign object: [count, freed, misused, supported, conforming]
    held,       \* foreign references outstanding (acquired and not yet released)
    calls,      \* foreign calls made so far: [addRef, release, queryInterface, qiOk]
    ops,        \* operations completed so far: [clone, drop]
    pc,         \* position of the running operation
    frame,      \* its locals: [self, iface, rc]
    result,     \* what the last finished operation returned
    views,      \* the borrowed ancestor views in scope: [owner, cap]
    task,       \* the foreign asynchronous task behind an IVssAsync
    asyncCalls, \* foreign calls made on the task: [wait, queryStatus, cancel]
    outcome,    \* what the last wait / query_status / cancel / vss_async_wait returned
    reported,   \* the last status a query_status returned Ok with ("none": none yet)
    wframe,     \* locals of a running vss_async_wait: [timeout, status]
    errv,       \* a VssAsyncError value held by the caller, and its projections
    etype,      \* the error type parameter E of the VssAsync handle
    enumr,      \* the foreign enumerator behind an IEnumObject: [items, cursor]
    it,         \* the EnumObjectIterator in use: [alive, size, position, length, buffer]
    yielded,    \* what the iterators over the enumerator returned so far
    props,      \* the ObjectProperties values in scope: id -> [state, type, obj]
    mem,        \* the objects' memory: obj -> times it was freed
    conc,       \* handles of one lineage used from several threads
    flow        \* the example's backup flow: position and the calls it made

comVars == <<rawPtr, handles, rcs, foreign, held, calls, ops, pc, frame, result>>
extVars == <<views, task, asyncCalls, outcome, reported, wframe, errv>>
moreVars == <<etype, enumr, it, yielded, props, mem, conc, flow>>
vars == <<rawPtr, handles, rcs, foreign, held, calls, ops, pc, frame, result,
          views, task, asyncCalls, outcome, reported, wframe, errv,
          etype, enumr, it, yielded, props, mem, conc, flow>>

NoFrame == [self |-> 0, iface |-> "none", rc |-> NoRc]
\* prev: for a drop, the operation that finished just before it.
NoPrev == [op |-> "none", self |-> 0, iface |-> "none", ret |-> "none", new |-> 0]
NoResult == [op |-> "none", self |-> 0, iface |-> "none", ret |-> "none",
             new |-> 0, hr |-> S_OK, ptr |-> "null",
             countBefore |-> 0, foreignBefore |-> 0, prev |-> NoPrev]

Live == {h \in HandleIds : handles[h].state = "live"}
Existing == {h \in HandleIds : handles[h].state # "free"}

Min(S) == CHOOSE x \in S : \A y \in S : x <= y
FreshHandle == Min({h \in HandleIds : handles[h].state = "free"})
FreshRc == Min({r \in RcIds : rcs[r] = 0})

(***************************************************************************)
(* SafeCOMComponent's private helpers.                                     *)
(***************************************************************************)
\* Mutant: a cell not yet initialised counts as no reference.
RefCountOf_OrZero(hs, rs, h) == IF hs[h].cell = NoRc THEN 0 ELSE rs[hs[h].cell]

\* reference_count(): Rc::strong_count of the cell's Rc, or 1 when no Rc was made.
RefCountOf(hs, rs, h) == IF hs[h].cell = NoRc THEN 1 ELSE rs[hs[h].cell]
ReferenceCount(h) == RefCountOf(handles, rcs, h)

\* Mutant: the comparison made on the uncast count with the wrong operator.
CheckIfOverflowing_Greater(count) == count > U32_MAX

\* check_if_overflowing_reference_count(): TRUE when it panics
\* (`count as u32 == u32::MAX`).  Its debug_assert_ne!(count, 0) never fires:
\* reference_count() is 1 or the strong count of an Rc the handle itself holds.
CheckIfOverflowing(count) == (count % Pow2(Width)) = U32_MAX

\* get_rc(): the cell's Rc, created with strong count 1 when the cell is empty.
GetRcId(h) == IF handles[h].cell = NoRc THEN FreshRc ELSE handles[h].cell
GetRcHandles(h) == [handles EXCEPT ![h].cell = GetRcId(h)]
GetRcRcs(h) == IF handles[h].cell = NoRc THEN [rcs EXCEPT ![FreshRc] = 1] ELSE rcs

\* Mutant: the Rc is moved out instead of cloned, the strong count stays.
RcCloneOfGetRc_NoIncrement(h) == GetRcRcs(h)

\* Rc::clone(self.get_rc()): the strong counts afterwards.
RcCloneOfGetRc(h) == [GetRcRcs(h) EXCEPT ![GetRcId(h)] = @ + 1]

\* Mutant: the Rc is leaked (forgotten) instead of dropped.
DropCell_Leak(cell) == rcs

\* Dropping a field of type OnceCell<Rc<()>>.
DropCell(cell) == IF cell = NoRc THEN rcs ELSE [rcs EXCEPT ![cell] = @ - 1]

(***************************************************************************)
(* The foreign object behind CustomIUnknown.                               *)
(***************************************************************************)
\* IUnknown::AddRef on a 32-bit unsigned counter.
ForeignAddRef(f) ==
    IF f.freed THEN [f EXCEPT !.misused = TRUE]
    ELSE [f EXCEPT !.count = (f.count + 1) % Pow2(Width)]

\* IUnknown::Release: the object frees itself when the counter reaches 0.
ForeignRelease(f) ==
    IF f.freed THEN [f EXCEPT !.misused = TRUE]
    ELSE [f EXCEPT !.count = (f.count - 1) % Pow2(Width),
                   !.freed = ((f.count - 1) % Pow2(Width) = 0)]

\* IUnknown::QueryInterface: the answers the object may give for an interface.
\* A conforming object answers S_OK with a pointer for what it supports and
\* E_NOINTERFACE with null otherwise; any other object may answer anything.
ForeignQueryAnswers(f, iid) ==
    IF f.conforming
    THEN IF iid \in f.supported
         THEN {[hr |-> S_OK, ptr |-> "comp"]}
         ELSE {[hr |-> E_NOINTERFACE, ptr |-> "null"]}
    ELSE {[hr |-> S_OK, ptr |-> "comp"], [hr |-> S_OK, ptr |-> "null"]}
         \cup {[hr |-> x, ptr |-> "null"] : x \in HResults \ {S_OK}}

\* A successful QueryInterface that hands out a pointer has called AddRef on it.
AnswerAddsRef(ans) == ans.hr = S_OK /\ ans.ptr # "null"

(***************************************************************************)
(* Borrowed ancestor views (transparent_wrapper!, unsafe_deref_to_ref!).   *)
(***************************************************************************)
\* At most this many views are in scope at once.
MaxViews == 2
\* At most this many handles exist at once where views are taken.
MaxOwners == 2

\* The COM interfaces of the backup-components family, newest last.
ChainInterfaces == {"IVssBackupComponents", "IVssBackupComponentsEx",
                    "IVssBackupComponentsEx2", "IVssBackupComponentsEx3",
                    "IVssBackupComponentsEx4"}

\* The owning wrapper type declared around SafeCOMComponent<interface>.
WrapperOf(iface) ==
    CASE iface = "IVssBackupComponents" -> "BackupComponents"
      [] iface = "IVssBackupComponentsEx" -> "BackupComponentsEx"
      [] iface = "IVssBackupComponentsEx2" -> "BackupComponentsEx2"
      [] iface = "IVssBackupComponentsEx3" -> "BackupComponentsEx3"
      [] iface = "IVssBackupComponentsEx4" -> "BackupComponentsEx4"
      [] OTHER -> "none"

\* Mutant: the newest view type derefs past its direct ancestor.
DerefTarget_SkipsOne(t) ==
    CASE t = "BackupComponents" -> "IBackupComponents"
      [] t = "BackupComponentsEx" -> "IBackupComponentsEx"
      [] t = "IBackupComponentsEx" -> "IBackupComponents"
      [] t = "BackupComponentsEx2" -> "IBackupComponentsEx2"
      [] t = "IBackupComponentsEx2" -> "IBackupComponentsEx"
      [] t = "BackupComponentsEx3" -> "IBackupComponentsEx3"
      [] t = "IBackupComponentsEx3" -> "IBackupComponentsEx2"
      [] t = "BackupComponentsEx4" -> "IBackupComponentsEx4"
      [] t = "IBackupComponentsEx4" -> "IBackupComponentsEx2"
      [] OTHER -> "none"

\* <t as Deref>::Target, as the unsafe_deref_to_ref! invocations declare it;
\* "none" for IBackupComponents, which has no Deref impl.
DerefTarget(t) ==
    CASE t = "BackupComponents" -> "IBackupComponents"
      [] t = "BackupComponentsEx" -> "IBackupComponentsEx"
      [] t = "IBackupComponentsEx" -> "IBackupComponents"
      [] t = "BackupComponentsEx2" -> "IBackupComponentsEx2"
      [] t = "IBackupComponentsEx2" -> "IBackupComponentsEx"
      [] t = "BackupComponentsEx3" -> "IBackupComponentsEx3"
      [] t = "IBackupComponentsEx3" -> "IBackupComponentsEx2"
      [] t = "BackupComponentsEx4" -> "IBackupComponentsEx4"
      [] t = "IBackupComponentsEx4" -> "IBackupComponentsEx3"
      [] OTHER -> "none"

\* The types reached from t by one or more deref steps, nearest first.
RECURSIVE DerefChain(_)
DerefChain(t) ==
    IF DerefTarget(t) = "none" THEN <<>>
    ELSE <<DerefTarget(t)>> \o DerefChain(DerefTarget(t))

\* The T for which `t: AsRef<T>` holds through impl_as_ref_and_borrow!.
Ancestors(t) == {DerefChain(t)[k] : k \in 1 .. Len(DerefChain(t))}

\* Mutant: the returned reference's lifetime is not tied to the borrow of self.
BorrowEnded_Unbounded(h) == TRUE

\* `fn deref(&self) -> &Self::Target` and `from_inner_ref<'__a>(&'__a inner)
\* -> &'__a Self`: the view borrows its owner, so the owner can be moved or
\* dropped only when no view of it is left in scope.
BorrowEnded(h) == \A v \in views : v.owner # h

(***************************************************************************)
(* Values of the asynchronous-task wrapper (src/src/vss.rs).               *)
(***************************************************************************)
\* Foreign calls made on the task in one behaviour.
MaxAsyncCalls == 4

\* winbase INFINITE (0xFFFFFFFF) at the model's width.
INFINITE == U32_MAX

\* Option<u32>: None, or Some(ms).
NoTimeout == [some |-> FALSE, ms |-> 0]
Timeouts == {NoTimeout} \cup {[some |-> TRUE, ms |-> m] : m \in {0, U32_MAX}}

VSS_S_ASYNC_PENDING == 271113
VSS_S_ASYNC_FINISHED == 271114
VSS_S_ASYNC_CANCELLED == 271115
StatusCodes == {VSS_S_ASYNC_PENDING, VSS_S_ASYNC_FINISHED, VSS_S_ASYNC_CANCELLED}

\* The HRESULTs a call on the task may return: S_OK, S_FALSE, E_FAIL.
AsyncHResults == {S_OK} \cup OtherHResults

AsyncInterface == "IVssAsync"

\* The task behind the handle: its status, whether a cancellation was
\* requested, and whether it follows the IVssAsync contract.
NoTask == [status |-> "none", cancelRequested |-> FALSE, conforming |-> TRUE]
NoAsyncCalls == [wait |-> 0, queryStatus |-> 0, cancel |-> 0]
\* ret: "Ok", "Err", "Timeout" (the example's TimeoutError) or "panic".
\* hr: the code of an Err; status: the status of an Ok query_status;
\* taskAt: the task's status when the call returned; ms: what Wait was asked
\* for; fhr, fresult: what QueryStatus returned and wrote.
NoOutcome == [op |-> "none", ret |-> "none", hr |-> S_OK, status |-> "none",
              timeout |-> NoTimeout, taskAt |-> "none",
              waitHr |-> S_OK, polled |-> "none",
              cancelIssued |-> FALSE, cancelHr |-> S_OK,
              ms |-> 0, fhr |-> S_OK, fresult |-> S_OK]
NoWFrame == [self |-> 0, timeout |-> NoTimeout, status |-> "none"]
\* A value converted out of the error: not taken yet, or the code it carries.
NoProj == [taken |-> FALSE, code |-> S_OK]
\* value: the VssAsyncError; built: the code it was made from; asyncErr,
\* underErr, back: the last async_error(), underlying_error() and HRESULT
\* taken from it; n: how many were taken.
NoErrv == [set |-> FALSE, value |-> [hresult |-> S_OK], built |-> S_OK,
           asyncErr |-> NoProj, underErr |-> NoProj, back |-> NoProj, n |-> 0]
\* Conversions taken from one error value.
MaxProjections == 3

(***************************************************************************)
(* Values of the enumerator iterator, of ObjectProperties, of the threads  *)
(* and of the example's backup flow, before any of them exists.            *)
(***************************************************************************)
\* The enumerator holds the elements 1..items and has handed out 1..cursor;
\* fetches, errors: the Next calls made on it and those that failed.
NoEnum == [items |-> 0, cursor |-> 0, conforming |-> TRUE, fetches |-> 0, errors |-> 0]
\* An ObjectProperties of type Unknown (the zeroed default).
Unknown == 0
NoBuffer == [inlined |-> TRUE, slots |-> <<>>, wanted_size |-> 0]
\* last: what the last next() returned; calls: the next() calls made on this
\* iterator; made, sizes: the iterators made so far and their buffer sizes.
NoIt == [alive |-> FALSE, buffer |-> NoBuffer, position |-> 0, length |-> 0,
         last |-> "none", calls |-> 0, made |-> 0, sizes |-> {}]
\* Threads that may hold handles of one lineage; clones and drops they start.
MaxThreads == 2
MaxThreadOps == 4
Threads == 1..MaxThreads
\* confined: every handle stays on the thread that made it (SafeCOMComponent
\* is neither Send nor Sync); strong: the Rc's strong count; live: the live
\* handles; owned, at, tmp: per thread, the handles it holds, the step it is
\* at and the count it read; started: the clones and drops begun.
NoConc == [confined |-> TRUE, strong |-> 0, live |-> 0,
           owned |-> [t \in Threads |-> 0],
           at |-> [t \in Threads |-> "idle"],
           tmp |-> [t \in Threads |-> 0],
           started |-> 0]
\* pc: the call the flow is at; prepared: PrepareForBackup was called and
\* returned its task; aborts: AbortBackup calls made; released: the
\* BackupComponents was dropped; finishedOk: finish() returned Ok; ret: what
\* the flow returned; leftAt: the call whose failure it returned.
NoFlow == [pc |-> "none", timeout |-> NoTimeout, prepared |-> FALSE, aborts |-> 0,
           released |-> FALSE, finishedOk |-> FALSE, ret |-> "none",
           leftAt |-> "none"]

\* No enumerator, iterator, ObjectProperties, thread or backup flow exists.
RestInit ==
    /\ enumr = NoEnum
    /\ it = NoIt
    /\ yielded = <<>>
    /\ props = <<>>
    /\ mem = <<>>
    /\ conc = NoConc
    /\ flow = NoFlow

\* No view, no task and no error value exists.
ExtViewsInit ==
    /\ views = {}
    /\ task = NoTask
    /\ asyncCalls = NoAsyncCalls
    /\ outcome = NoOutcome
    /\ reported = "none"
    /\ wframe = NoWFrame
    /\ errv = NoErrv

\* Nothing beyond the handle family exists: no view, no task, no error value.
ExtInit ==
    /\ etype = "none"
    /\ RestInit
    /\ views = {}
    /\ task = NoTask
    /\ asyncCalls = NoAsyncCalls
    /\ outcome = NoOutcome
    /\ reported = "none"
    /\ wframe = NoWFrame
    /\ errv = NoErrv

(***************************************************************************)
(* Init: a factory has produced a raw pointer; nothing is adopted yet.     *)
(***************************************************************************)
Init ==
    /\ rawPtr \in {"null", "comp"}
    /\ handles = [h \in HandleIds |-> FreeHandle]
    /\ rcs = [r \in RcIds |-> 0]
    /\ \E sup \in SUBSET Interfaces, conf \in BOOLEAN :
          /\ AdoptedInterface \in sup
          /\ ~conf => sup = {AdoptedInterface}
          /\ foreign = [count |-> IF rawPtr = "null" THEN 0 ELSE 1,
                        freed |-> FALSE, misused |-> FALSE,
                        supported |-> sup, conforming |-> conf]
    /\ held = IF rawPtr = "null" THEN 0 ELSE 1
    /\ calls = [addRef |-> 0, release |-> 0, queryInterface |-> 0, qiOk |-> 0]
    /\ ops = [clone |-> 0, drop |-> 0]
    /\ pc = "start"
    /\ frame = NoFrame
    /\ result = NoResult
    /\ ExtInit

Budget == calls.addRef + calls.queryInterface < MaxCalls

(***************************************************************************)
(* SafeCOMComponent::new                                                   *)
(***************************************************************************)
\* Mutant: NonNull::new_unchecked, every pointer is accepted.
NonNullNew_Unchecked(ptr) == TRUE

\* NonNull::new(comp).expect(..): TRUE when the pointer is accepted.
NonNullNew(ptr) == ptr # "null"

New ==
    /\ pc = "start"
    /\ pc' = "idle"
    /\ IF NonNullNew(rawPtr)
       THEN /\ handles' = [handles EXCEPT ![FreshHandle] =
                    [state |-> "live", iface |-> AdoptedInterface,
                     comp |-> rawPtr, cell |-> NoRc]]
            /\ result' = [NoResult EXCEPT !.op = "new", !.ret = "some",
                                          !.new = FreshHandle]
       ELSE /\ handles' = handles
            /\ result' = [NoResult EXCEPT !.op = "new", !.ret = "panic"]
    /\ UNCHANGED <<rawPtr, rcs, foreign, held, calls, ops, frame>>
    /\ UNCHANGED extVars
    /\ UNCHANGED moreVars

(***************************************************************************)
(* impl Clone for SafeCOMComponent                                         *)
(***************************************************************************)
\* self.check_if_overflowing_reference_count();
CloneCheck(h) ==
    /\ pc = "idle"
    /\ h \in Live
    /\ Budget
    /\ IF CheckIfOverflowing(ReferenceCount(h))
       THEN /\ pc' = "idle"
            /\ frame' = NoFrame
            /\ result' = [NoResult EXCEPT !.op = "clone", !.self = h,
                              !.iface = handles[h].iface, !.ret = "panic",
                              !.countBefore = ReferenceCount(h),
                              !.foreignBefore = foreign.count]
       ELSE /\ pc' = "clone_rc"
            /\ frame' = [self |-> h, iface |-> handles[h].iface, rc |-> NoRc]
            /\ result' = [NoResult EXCEPT !.op = "clone", !.self = h,
                              !.iface = handles[h].iface, !.ret = "running",
                              !.countBefore = ReferenceCount(h),
                              !.foreignBefore = foreign.count]
    /\ UNCHANGED <<rawPtr, handles, rcs, foreign, held, calls, ops>>
    /\ UNCHANGED extVars
    /\ UNCHANGED moreVars

\* let ref_count = Rc::clone(self.get_rc());
CloneRcClone ==
    /\ pc = "clone_rc"
    /\ pc' = "clone_addref"
    /\ handles' = GetRcHandles(frame.self)
    /\ rcs' = RcCloneOfGetRc(frame.self)
    /\ frame' = [frame EXCEPT !.rc = GetRcId(frame.self)]
    /\ UNCHANGED <<rawPtr, foreign, held, calls, ops, result>>
    /\ UNCHANGED extVars
    /\ UNCHANGED moreVars

\* Mutant: the clone is built without calling add_ref.
CloneAddRef_NoAddRef ==
    /\ pc = "clone_addref"
    /\ pc' = "idle"
    /\ handles' = [handles EXCEPT ![FreshHandle] =
            [state |-> "live", iface |-> frame.iface,
             comp |-> handles[frame.self].comp, cell |-> frame.rc]]
    /\ ops' = [ops EXCEPT !.clone = @ + 1]
    /\ frame' = NoFrame
    /\ result' = [result EXCEPT !.ret = "some", !.new = FreshHandle]
    /\ UNCHANGED <<rawPtr, rcs, foreign, held, calls>>
    /\ UNCHANGED extVars
    /\ UNCHANGED moreVars

\* add_ref(self); Self { comp: self.comp, ref_count: OnceCell::from(ref_count) }
CloneAddRef ==
    /\ pc = "clone_addref"
    /\ pc' = "idle"
    /\ foreign' = ForeignAddRef(foreign)
    /\ held' = held + 1
    /\ calls' = [calls EXCEPT !.addRef = @ + 1]
    /\ handles' = [handles EXCEPT ![FreshHandle] =
            [state |-> "live", iface |-> frame.iface,
             comp |-> handles[frame.self].comp, cell |-> frame.rc]]
    /\ ops' = [ops EXCEPT !.clone = @ + 1]
    /\ frame' = NoFrame
    /\ result' = [result EXCEPT !.ret = "some", !.new = FreshHandle]
    /\ UNCHANGED <<rawPtr, rcs>>
    /\ UNCHANGED extVars
    /\ UNCHANGED moreVars

(***************************************************************************)
(* impl Drop for SafeCOMComponent                                          *)
(***************************************************************************)
\* release(self);
\* Mutant: dropping the handle also cancels the task behind it.
DropRelease_Cancels(h) ==
    /\ pc = "idle"
    /\ h \in Live
    /\ BorrowEnded(h)
    /\ pc' = "drop_fields"
    /\ handles' = [handles EXCEPT ![h].state = "dropping"]
    /\ foreign' = ForeignRelease(foreign)
    /\ held' = held - 1
    /\ calls' = [calls EXCEPT !.release = @ + 1]
    /\ frame' = [self |-> h, iface |-> handles[h].iface, rc |-> NoRc]
    /\ asyncCalls' = [asyncCalls EXCEPT !.cancel = @ + 1]
    /\ task' = [task EXCEPT !.cancelRequested = TRUE]
    /\ UNCHANGED <<rawPtr, rcs, ops, result>>
    /\ UNCHANGED <<views, outcome, reported, wframe, errv>>
    /\ UNCHANGED moreVars

DropRelease(h) ==
    /\ pc = "idle"
    /\ h \in Live
    /\ BorrowEnded(h)
    /\ pc' = "drop_fields"
    /\ handles' = [handles EXCEPT ![h].state = "dropping"]
    /\ foreign' = ForeignRelease(foreign)
    /\ held' = held - 1
    /\ calls' = [calls EXCEPT !.release = @ + 1]
    /\ frame' = [self |-> h, iface |-> handles[h].iface, rc |-> NoRc]
    /\ UNCHANGED <<rawPtr, rcs, ops, result>>
    /\ UNCHANGED extVars
    /\ UNCHANGED moreVars

\* The fields are dropped after drop() returns: the Rc's strong count goes down.
DropFields ==
    /\ pc = "drop_fields"
    /\ pc' = "idle"
    /\ rcs' = DropCell(handles[frame.self].cell)
    /\ handles' = [handles EXCEPT ![frame.self] = FreeHandle]
    /\ ops' = [ops EXCEPT !.drop = @ + 1]
    /\ frame' = NoFrame
    /\ result' = [NoResult EXCEPT !.op = "drop", !.self = frame.self,
                      !.iface = frame.iface, !.ret = "unit",
                      !.countBefore = result.countBefore,
                      !.foreignBefore = result.foreignBefore,
                      !.prev = [op |-> result.op, self |-> result.self,
                                iface |-> result.iface, ret |-> result.ret,
                                new |-> result.new]]
    /\ UNCHANGED <<rawPtr, foreign, held, calls>>
    /\ UNCHANGED extVars
    /\ UNCHANGED moreVars

(***************************************************************************)
(* SafeCOMComponent::query_interface                                       *)
(***************************************************************************)
\* Mutant: not-supported is compared against the wrong status code.
QueryOutcome_WrongCode(hr, ptr) ==
    IF hr = S_OK
    THEN IF NonNullNew(ptr) THEN "some" ELSE "panic"
    ELSE IF hr = -2147467259 THEN "none" ELSE "panic"

\* Mutant: every failure status is turned into None.
QueryOutcome_AllNone(hr, ptr) ==
    IF hr = S_OK
    THEN IF NonNullNew(ptr) THEN "some" ELSE "panic"
    ELSE "none"

\* The branch on the foreign call's status and out-pointer: "some" goes on to
\* build the handle, "none" returns None, "panic" is an expect/panic!.
QueryOutcome(hr, ptr) ==
    IF hr = S_OK
    THEN IF NonNullNew(ptr) THEN "some" ELSE "panic"
    ELSE IF hr = E_NOINTERFACE THEN "none" ELSE "panic"

\* Mutant: the foreign call is made without the overflow check before it.
QueryCheck_NoCheck(h, i) ==
    /\ pc = "idle"
    /\ h \in Live
    /\ Budget
    /\ pc' = "qi_call"
    /\ frame' = [self |-> h, iface |-> i, rc |-> NoRc]
    /\ result' = [NoResult EXCEPT !.op = "query", !.self = h,
                      !.iface = i, !.ret = "running",
                      !.countBefore = ReferenceCount(h),
                      !.foreignBefore = foreign.count]
    /\ UNCHANGED <<rawPtr, handles, rcs, foreign, held, calls, ops>>
    /\ UNCHANGED extVars
    /\ UNCHANGED moreVars

\* let iid = I::uuidof(); self.check_if_overflowing_reference_count();
QueryCheck(h, i) ==
    /\ pc = "idle"
    /\ h \in Live
    /\ Budget
    /\ IF CheckIfOverflowing(ReferenceCount(h))
       THEN /\ pc' = "idle"
            /\ frame' = NoFrame
            /\ result' = [NoResult EXCEPT !.op = "query", !.self = h,
                              !.iface = i, !.ret = "panic",
                              !.countBefore = ReferenceCount(h),
                              !.foreignBefore = foreign.count]
       ELSE /\ pc' = "qi_call"
            /\ frame' = [self |-> h, iface |-> i, rc |-> NoRc]
            /\ result' = [NoResult EXCEPT !.op = "query", !.self = h,
                              !.iface = i, !.ret = "running",
                              !.countBefore = ReferenceCount(h),
                              !.foreignBefore = foreign.count]
    /\ UNCHANGED <<rawPtr, handles, rcs, foreign, held, calls, ops>>
    /\ UNCHANGED extVars
    /\ UNCHANGED moreVars

\* let hr = query_interface(self, &iid, &mut interface); and the branch on hr,
\* up to `let mut comp = SafeCOMComponent { comp, ref_count: OnceCell::new() }`.
QueryCall ==
    /\ pc = "qi_call"
    /\ \E ans \in ForeignQueryAnswers(foreign, frame.iface) :
          /\ foreign' = IF AnswerAddsRef(ans) THEN ForeignAddRef(foreign) ELSE foreign
          /\ held' = IF AnswerAddsRef(ans) THEN held + 1 ELSE held
          /\ calls' = [calls EXCEPT !.queryInterface = @ + 1,
                            !.qiOk = IF AnswerAddsRef(ans) THEN @ + 1 ELSE @]
          /\ IF QueryOutcome(ans.hr, ans.ptr) = "some"
             THEN /\ pc' = "qi_rc"
                  /\ handles' = [handles EXCEPT ![FreshHandle] =
                          [state |-> "live", iface |-> frame.iface,
                           comp |-> ans.ptr, cell |-> NoRc]]
                  /\ frame' = frame
                  /\ result' = [result EXCEPT !.hr = ans.hr, !.ptr = ans.ptr,
                                    !.new = FreshHandle]
             ELSE /\ pc' = "idle"
                  /\ handles' = handles
                  /\ frame' = NoFrame
                  /\ result' = [result EXCEPT !.hr = ans.hr, !.ptr = ans.ptr,
                                    !.ret = QueryOutcome(ans.hr, ans.ptr)]
    /\ UNCHANGED <<rawPtr, rcs, ops>>
    /\ UNCHANGED extVars
    /\ UNCHANGED moreVars

\* Mutant: the cloned Rc is not stored in the new handle (it is dropped at the
\* end of the function), the handle keeps its empty cell.
QueryShare_NotStored ==
    /\ pc = "qi_rc"
    /\ pc' = "idle"
    /\ rcs' = GetRcRcs(frame.self)
    /\ handles' = GetRcHandles(frame.self)
    /\ frame' = NoFrame
    /\ result' = [result EXCEPT !.ret = "some"]
    /\ UNCHANGED <<rawPtr, foreign, held, calls, ops>>
    /\ UNCHANGED extVars
    /\ UNCHANGED moreVars

\* let ref_count = Rc::clone(self.get_rc());
\* comp.ref_count = OnceCell::from(ref_count); Some(comp)
QueryShare ==
    /\ pc = "qi_rc"
    /\ pc' = "idle"
    /\ rcs' = RcCloneOfGetRc(frame.self)
    /\ handles' = [GetRcHandles(frame.self) EXCEPT
                       ![result.new].cell = GetRcId(frame.self)]
    /\ frame' = NoFrame
    /\ result' = [result EXCEPT !.ret = "some"]
    /\ UNCHANGED <<rawPtr, foreign, held, calls, ops>>
    /\ UNCHANGED extVars
    /\ UNCHANGED moreVars

Next ==
    \/ New
    \/ \E h \in HandleIds : CloneCheck(h)
    \/ CloneRcClone
    \/ CloneAddRef
    \/ \E h \in HandleIds : DropRelease(h)
    \/ DropFields
    \/ \E h \in HandleIds, i \in Interfaces : QueryCheck(h, i)
    \/ QueryCall
    \/ QueryShare

Spec == Init /\ [][Next]_vars

(***************************************************************************)
(* Ancestor views of the backup-components handles.                        *)
(***************************************************************************)
\* BackupComponents::new() followed by a successful query for a newer
\* interface of the family: two live handles sharing one Rc.
InitViews ==
    /\ rawPtr = "comp"
    /\ \E i \in ChainInterfaces :
          handles = [h \in HandleIds |->
                        IF h = 1 THEN [state |-> "live", iface |-> AdoptedInterface,
                                       comp |-> "comp", cell |-> 1]
                        ELSE IF h = 2 THEN [state |-> "live", iface |-> i,
                                            comp |-> "comp", cell |-> 1]
                        ELSE FreeHandle]
    /\ rcs = [r \in RcIds |-> IF r = 1 THEN 2 ELSE 0]
    /\ foreign = [count |-> 2, freed |-> FALSE, misused |-> FALSE,
                  supported |-> ChainInterfaces, conforming |-> TRUE]
    /\ held = 2
    /\ calls = [addRef |-> 0, release |-> 0, queryInterface |-> 1, qiOk |-> 1]
    /\ ops = [clone |-> 0, drop |-> 0]
    /\ pc = "idle"
    /\ frame = NoFrame
    /\ result = NoResult
    /\ ExtInit

\* Mutant: the view is made by cloning the handle, which calls AddRef.
Deref_AddRef(h) ==
    /\ pc = "idle"
    /\ h \in Live
    /\ DerefTarget(WrapperOf(handles[h].iface)) # "none"
    /\ views' = views \cup {[owner |-> h,
                             cap |-> DerefTarget(WrapperOf(handles[h].iface))]}
    /\ views' # views
    /\ Cardinality(views') <= MaxViews
    /\ foreign' = ForeignAddRef(foreign)
    /\ calls' = [calls EXCEPT !.addRef = @ + 1]
    /\ UNCHANGED <<rawPtr, handles, rcs, held, ops, pc, frame, result>>
    /\ UNCHANGED <<task, asyncCalls, outcome, reported, wframe, errv>>
    /\ UNCHANGED moreVars

\* <owner as Deref>::deref(&self): Target::from_inner_ref(&self.0), a pointer
\* cast to the direct ancestor view of the handle.
Deref(h) ==
    /\ pc = "idle"
    /\ h \in Live
    /\ DerefTarget(WrapperOf(handles[h].iface)) # "none"
    /\ views' = views \cup {[owner |-> h,
                             cap |-> DerefTarget(WrapperOf(handles[h].iface))]}
    /\ views' # views
    /\ Cardinality(views') <= MaxViews
    /\ UNCHANGED comVars
    /\ UNCHANGED <<task, asyncCalls, outcome, reported, wframe, errv>>
    /\ UNCHANGED moreVars

\* <view as Deref>::deref(&self) on a view: one more step up, the new view
\* borrows what the old one borrowed.
DerefView(v) ==
    /\ pc = "idle"
    /\ v \in views
    /\ DerefTarget(v.cap) # "none"
    /\ views' = views \cup {[owner |-> v.owner, cap |-> DerefTarget(v.cap)]}
    /\ views' # views
    /\ Cardinality(views') <= MaxViews
    /\ UNCHANGED comVars
    /\ UNCHANGED <<task, asyncCalls, outcome, reported, wframe, errv>>
    /\ UNCHANGED moreVars

\* AsRef<T>::as_ref(&self) / Borrow<T>::borrow(&self) on a handle: "will deref
\* as needed", any ancestor T is reached in one call.
AsRef(h, t) ==
    /\ pc = "idle"
    /\ h \in Live
    /\ t \in Ancestors(WrapperOf(handles[h].iface))
    /\ views' = views \cup {[owner |-> h, cap |-> t]}
    /\ views' # views
    /\ Cardinality(views') <= MaxViews
    /\ UNCHANGED comVars
    /\ UNCHANGED <<task, asyncCalls, outcome, reported, wframe, errv>>
    /\ UNCHANGED moreVars

\* A view goes out of scope: references have no destructor.
EndBorrow(v) ==
    /\ pc = "idle"
    /\ v \in views
    /\ views' = views \ {v}
    /\ UNCHANGED comVars
    /\ UNCHANGED <<task, asyncCalls, outcome, reported, wframe, errv>>
    /\ UNCHANGED moreVars

ViewTypes == {DerefTarget(WrapperOf(i)) : i \in ChainInterfaces}

NextViews ==
    \/ \E h \in HandleIds : Cardinality(Existing) < MaxOwners /\ CloneCheck(h)
    \/ CloneRcClone
    \/ CloneAddRef
    \/ \E h \in HandleIds : DropRelease(h)
    \/ DropFields
    \/ \E h \in HandleIds : Deref(h)
    \/ \E v \in views : DerefView(v)
    \/ \E h \in HandleIds, t \in ViewTypes : AsRef(h, t)
    \/ \E v \in views : EndBorrow(v)

SpecViews == InitViews /\ [][NextViews]_vars

(***************************************************************************)
(* The foreign task behind IVssAsync, as the calls of VssAsync see it.     *)
(***************************************************************************)
\* The code a task following the contract reports for its status.
StatusCode(st) ==
    CASE st = "Pending" -> VSS_S_ASYNC_PENDING
      [] st = "Finished" -> VSS_S_ASYNC_FINISHED
      [] st = "Canceled" -> VSS_S_ASYNC_CANCELLED

\* What the task may have become while a call on it was in progress.
Progress(tk) ==
    IF tk.status # "Pending" THEN {tk}
    ELSE {tk, [tk EXCEPT !.status = "Finished"]}
         \cup (IF tk.cancelRequested THEN {[tk EXCEPT !.status = "Canceled"]} ELSE {})

\* IVssAsync::Wait(ms): [hr, task].  A task following the contract returns
\* S_OK when it reached a terminal status or, for a finite ms, when the time
\* elapsed; any other task may return anything at any time.
ForeignWait(tk, ms) ==
    IF tk.conforming
    THEN {[hr |-> S_OK, task |-> a] :
              a \in {b \in Progress(tk) : b.status # "Pending" \/ ms # INFINITE}}
         \cup {[hr |-> x, task |-> tk] : x \in OtherHResults}
    ELSE {[hr |-> x, task |-> tk] : x \in AsyncHResults}

\* IVssAsync::QueryStatus(&mut result, null): [hr, result, task]; result is
\* left as the caller initialised it (S_OK) when the call fails.
ForeignQueryStatus(tk) ==
    IF tk.conforming
    THEN {[hr |-> S_OK, result |-> StatusCode(tk.status), task |-> tk]}
         \cup {[hr |-> x, result |-> S_OK, task |-> tk] : x \in OtherHResults}
    ELSE {[hr |-> x, result |-> r, task |-> tk] :
              x \in AsyncHResults, r \in StatusCodes \cup AsyncHResults}

\* IVssAsync::Cancel(): [hr, task].  Cancellation is cooperative: a pending
\* task notes the request and may stop now, later or not at all.
ForeignCancel(tk) ==
    IF tk.conforming /\ tk.status = "Pending"
    THEN {[hr |-> S_OK, task |-> a] :
              a \in {[tk EXCEPT !.cancelRequested = TRUE],
                     [tk EXCEPT !.cancelRequested = TRUE, !.status = "Canceled"]}}
         \cup {[hr |-> x, task |-> tk] : x \in OtherHResults}
    ELSE {[hr |-> x, task |-> tk] : x \in AsyncHResults}

(***************************************************************************)
(* VssAsync::wait, query_status, cancel (src/src/vss.rs).                  *)
(***************************************************************************)
\* Mutant: every non-negative HRESULT counts as success (SUCCEEDED).
CheckCom_Succeeded(hr) == hr >= 0

\* check_com: TRUE for Ok(()), FALSE for Err(hr).
CheckCom(hr) == hr = S_OK

\* Mutant: the Pending and Finished codes are exchanged.
AsyncStatusTryFrom_Swapped(code) ==
    CASE code = VSS_S_ASYNC_CANCELLED -> "Canceled"
      [] code = VSS_S_ASYNC_FINISHED -> "Pending"
      [] code = VSS_S_ASYNC_PENDING -> "Finished"
      [] OTHER -> "Err"

\* AsyncStatus::try_from(raw) as with_from! generates it: "Err" for Err(()).
AsyncStatusTryFrom(code) ==
    CASE code = VSS_S_ASYNC_CANCELLED -> "Canceled"
      [] code = VSS_S_ASYNC_FINISHED -> "Finished"
      [] code = VSS_S_ASYNC_PENDING -> "Pending"
      [] OTHER -> "Err"

\* milliseconds.unwrap_or(INFINITE)
UnwrapOrInfinite(t) == IF t.some THEN t.ms ELSE INFINITE

\* wait(milliseconds): [ret, hr, task].
WaitOutcomes(tk, t) ==
    {[ret |-> IF CheckCom(a.hr) THEN "Ok" ELSE "Err", hr |-> a.hr, task |-> a.task,
      ms |-> UnwrapOrInfinite(t)] :
        a \in ForeignWait(tk, UnwrapOrInfinite(t))}

\* query_status(): [ret, hr, status, task]; a result that is no AsyncStatus
\* is returned as the error code.
QueryStatusOutcomes(tk) ==
    {IF ~CheckCom(a.hr)
        THEN [ret |-> "Err", hr |-> a.hr, status |-> "none", task |-> a.task,
              fhr |-> a.hr, fresult |-> a.result]
     ELSE IF AsyncStatusTryFrom(a.result) = "Err"
        THEN [ret |-> "Err", hr |-> a.result, status |-> "none", task |-> a.task,
              fhr |-> a.hr, fresult |-> a.result]
     ELSE [ret |-> "Ok", hr |-> S_OK, status |-> AsyncStatusTryFrom(a.result),
           task |-> a.task, fhr |-> a.hr, fresult |-> a.result] :
        a \in ForeignQueryStatus(tk)}

\* cancel(): [ret, hr, task].
CancelOutcomes(tk) ==
    {[ret |-> IF CheckCom(a.hr) THEN "Ok" ELSE "Err", hr |-> a.hr, task |-> a.task] :
        a \in ForeignCancel(tk)}

AsyncBudget(n) ==
    asyncCalls.wait + asyncCalls.queryStatus + asyncCalls.cancel + n <= MaxAsyncCalls

AsyncHandles == {h \in Live : handles[h].iface = AsyncInterface}

\* The state after VssAsync::new(SafeCOMComponent::new(task)) for a task
\* pointer a backup-components method handed out.
InitAsync ==
    /\ rawPtr = "comp"
    /\ handles = [h \in HandleIds |->
                    IF h = 1 THEN [state |-> "live", iface |-> AsyncInterface,
                                   comp |-> "comp", cell |-> NoRc]
                    ELSE FreeHandle]
    /\ rcs = [r \in RcIds |-> 0]
    /\ foreign = [count |-> 1, freed |-> FALSE, misused |-> FALSE,
                  supported |-> {AsyncInterface}, conforming |-> TRUE]
    /\ held = 1
    /\ calls = [addRef |-> 0, release |-> 0, queryInterface |-> 0, qiOk |-> 0]
    /\ ops = [clone |-> 0, drop |-> 0]
    /\ pc = "idle"
    /\ frame = NoFrame
    /\ result = NoResult
    /\ views = {}
    /\ \E conf \in BOOLEAN :
          task = [status |-> "Pending", cancelRequested |-> FALSE, conforming |-> conf]
    /\ asyncCalls = NoAsyncCalls
    /\ outcome = NoOutcome
    /\ reported = "none"
    /\ wframe = NoWFrame
    /\ errv = NoErrv
    /\ etype = "E"
    /\ RestInit

\* The foreign system completes the task.
TaskFinishes ==
    /\ task.conforming
    /\ task.status = "Pending"
    /\ task' = [task EXCEPT !.status = "Finished"]
    /\ UNCHANGED comVars
    /\ UNCHANGED <<views, asyncCalls, outcome, reported, wframe, errv>>
    /\ UNCHANGED moreVars

\* The foreign system honours an earlier cancellation request.
TaskCancels ==
    /\ task.conforming
    /\ task.status = "Pending"
    /\ task.cancelRequested
    /\ task' = [task EXCEPT !.status = "Canceled"]
    /\ UNCHANGED comVars
    /\ UNCHANGED <<views, asyncCalls, outcome, reported, wframe, errv>>
    /\ UNCHANGED moreVars

Wait(h, t) ==
    /\ pc = "idle"
    /\ h \in AsyncHandles
    /\ AsyncBudget(1)
    /\ \E o \in WaitOutcomes(task, t) :
          /\ task' = o.task
          /\ outcome' = [NoOutcome EXCEPT !.op = "wait", !.ret = o.ret, !.hr = o.hr,
                             !.timeout = t, !.taskAt = o.task.status,
                             !.ms = o.ms]
    /\ asyncCalls' = [asyncCalls EXCEPT !.wait = @ + 1]
    /\ UNCHANGED comVars
    /\ UNCHANGED <<views, reported, wframe, errv>>
    /\ UNCHANGED moreVars

QueryStatus(h) ==
    /\ pc = "idle"
    /\ h \in AsyncHandles
    /\ AsyncBudget(1)
    /\ \E o \in QueryStatusOutcomes(task) :
          /\ task' = o.task
          /\ outcome' = [NoOutcome EXCEPT !.op = "query_status", !.ret = o.ret,
                             !.hr = o.hr, !.status = o.status,
                             !.taskAt = o.task.status,
                             !.fhr = o.fhr, !.fresult = o.fresult]
          /\ reported' = IF o.ret = "Ok" THEN o.status ELSE reported
    /\ asyncCalls' = [asyncCalls EXCEPT !.queryStatus = @ + 1]
    /\ UNCHANGED comVars
    /\ UNCHANGED <<views, wframe, errv>>
    /\ UNCHANGED moreVars

Cancel(h) ==
    /\ pc = "idle"
    /\ h \in AsyncHandles
    /\ AsyncBudget(1)
    /\ \E o \in CancelOutcomes(task) :
          /\ task' = o.task
          /\ outcome' = [NoOutcome EXCEPT !.op = "cancel", !.ret = o.ret, !.hr = o.hr,
                             !.taskAt = o.task.status]
    /\ asyncCalls' = [asyncCalls EXCEPT !.cancel = @ + 1]
    /\ UNCHANGED comVars
    /\ UNCHANGED <<views, reported, wframe, errv>>
    /\ UNCHANGED moreVars

\* The error types a VssAsync may be labelled with.
ErrorTypes == {"E", "E2", "HRESULT"}

\* Mutant: the relabelled handle is made from a clone of the old one.
Relabel_Cloning(h, e2) ==
    /\ pc = "idle"
    /\ h \in AsyncHandles
    /\ BorrowEnded(h)
    /\ e2 # etype
    /\ etype' = e2
    /\ foreign' = ForeignAddRef(foreign)
    /\ calls' = [calls EXCEPT !.addRef = @ + 1]
    /\ UNCHANGED <<rawPtr, handles, rcs, held, ops, pc, frame, result>>
    /\ UNCHANGED extVars
    /\ UNCHANGED <<enumr, it, yielded, props, mem, conc, flow>>

\* VssAsync(self.0, PhantomData): the SafeCOMComponent is moved into a
\* VssAsync with another error type.
Relabel(h, e2) ==
    /\ pc = "idle"
    /\ h \in AsyncHandles
    /\ BorrowEnded(h)
    /\ e2 # etype
    /\ etype' = e2
    /\ UNCHANGED comVars
    /\ UNCHANGED extVars
    /\ UNCHANGED <<enumr, it, yielded, props, mem, conc, flow>>

\* untyped_errors(self) -> VssAsync<HRESULT>
UntypedErrors(h) == Relabel(h, "HRESULT")

\* errors_as::<E2>(self) -> VssAsync<E2>
ErrorsAs(h, e2) == Relabel(h, e2)

(***************************************************************************)
(* vss_async_wait (src/examples/make-backup-snapshot.rs): the wait that    *)
(* tells a timeout from a completion.  It takes the VssAsync by value.     *)
(***************************************************************************)
\* Mutant: the match is made against the wrong variant.
IsPending_MatchesFinished(status) == status = "Finished"

\* matches!(status, AsyncStatus::Pending)
IsPending(status) == status = "Pending"

\* Mutant: a missing timeout falls back to a default instead of panicking.
TimeoutExpect_OrDefault(t) == "Timeout"

\* TimeoutError(timeout_in_millis.expect(..)): the timeout outcome, or a panic
\* when no timeout was given.
TimeoutExpect(t) == IF t.some THEN "Timeout" ELSE "panic"

\* Mutant: the result of cancel is propagated with `?`.
AfterCancel_Propagated(t, cancelRet) ==
    IF cancelRet = "Err" THEN "Err" ELSE TimeoutExpect(t)

\* `let _ = vss_async.cancel();` followed by the timeout error.
AfterCancel(t, cancelRet) == TimeoutExpect(t)

\* match vss_async.wait(timeout_in_millis)
VawWait(h, t) ==
    /\ pc = "idle"
    /\ h \in AsyncHandles
    /\ BorrowEnded(h)
    /\ AsyncBudget(3)
    /\ \E o \in WaitOutcomes(task, t) :
          /\ task' = o.task
          /\ IF o.ret = "Ok"
             THEN /\ pc' = "vaw_status"
                  /\ outcome' = [NoOutcome EXCEPT !.op = "vss_async_wait",
                                     !.timeout = t, !.waitHr = o.hr,
                                     !.ms = o.ms]
             ELSE /\ pc' = "vaw_drop"
                  /\ outcome' = [NoOutcome EXCEPT !.op = "vss_async_wait",
                                     !.timeout = t, !.waitHr = o.hr,
                                     !.ms = o.ms,
                                     !.ret = "Err", !.hr = o.hr,
                                     !.taskAt = o.task.status]
    /\ wframe' = [self |-> h, timeout |-> t, status |-> "none"]
    /\ asyncCalls' = [asyncCalls EXCEPT !.wait = @ + 1]
    /\ UNCHANGED <<rawPtr, handles, rcs, foreign, held, calls, ops, frame, result>>
    /\ UNCHANGED <<views, reported, errv>>
    /\ UNCHANGED moreVars

\* Ok(()) => if matches!(vss_async.query_status()?, AsyncStatus::Pending)
VawStatus ==
    /\ pc = "vaw_status"
    /\ \E o \in QueryStatusOutcomes(task) :
          /\ task' = o.task
          /\ reported' = IF o.ret = "Ok" THEN o.status ELSE reported
          /\ IF o.ret = "Err"
             THEN /\ pc' = "vaw_drop"
                  /\ outcome' = [outcome EXCEPT !.ret = "Err", !.hr = o.hr,
                                     !.taskAt = o.task.status]
             ELSE IF IsPending(o.status)
             THEN /\ pc' = "vaw_cancel"
                  /\ outcome' = [outcome EXCEPT !.polled = o.status]
             ELSE /\ pc' = "vaw_drop"
                  /\ outcome' = [outcome EXCEPT !.ret = "Ok", !.polled = o.status,
                                     !.taskAt = o.task.status]
          /\ wframe' = [wframe EXCEPT !.status = o.status]
    /\ asyncCalls' = [asyncCalls EXCEPT !.queryStatus = @ + 1]
    /\ UNCHANGED <<rawPtr, handles, rcs, foreign, held, calls, ops, frame, result>>
    /\ UNCHANGED <<views, errv>>
    /\ UNCHANGED moreVars

\* Timed out: let _ = vss_async.cancel(); Err(TimeoutError(..expect(..)))
VawCancel ==
    /\ pc = "vaw_cancel"
    /\ \E o \in CancelOutcomes(task) :
          /\ task' = o.task
          /\ outcome' = [outcome EXCEPT !.cancelIssued = TRUE, !.cancelHr = o.hr,
                             !.ret = AfterCancel(wframe.timeout, o.ret),
                             !.hr = IF AfterCancel(wframe.timeout, o.ret) = "Err"
                                    THEN o.hr ELSE S_OK,
                             !.taskAt = o.task.status]
    /\ pc' = "vaw_drop"
    /\ asyncCalls' = [asyncCalls EXCEPT !.cancel = @ + 1]
    /\ UNCHANGED <<rawPtr, handles, rcs, foreign, held, calls, ops, frame, result>>
    /\ UNCHANGED <<views, reported, wframe, errv>>
    /\ UNCHANGED moreVars

\* The function returns (or unwinds): its VssAsync argument is dropped,
\* SafeCOMComponent::drop releases the reference.
VawDrop ==
    /\ pc = "vaw_drop"
    /\ pc' = "drop_fields"
    /\ handles' = [handles EXCEPT ![wframe.self].state = "dropping"]
    /\ foreign' = ForeignRelease(foreign)
    /\ held' = held - 1
    /\ calls' = [calls EXCEPT !.release = @ + 1]
    /\ frame' = [self |-> wframe.self, iface |-> handles[wframe.self].iface,
                 rc |-> NoRc]
    /\ wframe' = NoWFrame
    /\ UNCHANGED <<rawPtr, rcs, ops, result>>
    /\ UNCHANGED <<views, task, asyncCalls, outcome, reported, errv>>
    /\ UNCHANGED moreVars

NextAsync ==
    \/ TaskFinishes
    \/ TaskCancels
    \/ \E h \in HandleIds, t \in Timeouts : Wait(h, t)
    \/ \E h \in HandleIds : QueryStatus(h)
    \/ \E h \in HandleIds : Cancel(h)
    \/ \E h \in HandleIds : UntypedErrors(h)
    \/ \E h \in HandleIds, e2 \in ErrorTypes : ErrorsAs(h, e2)
    \/ \E h \in HandleIds, t \in Timeouts : VawWait(h, t)
    \/ VawStatus
    \/ VawCancel
    \/ VawDrop
    \/ \E h \in HandleIds : DropRelease(h)
    \/ DropFields

SpecAsync == InitAsync /\ [][NextAsync]_vars

(***************************************************************************)
(* VssAsyncError<A, E> (src/src/vss.rs) and its conversions.               *)
(***************************************************************************)
\* The codes an error is built from: every code but S_OK that check_com
\* rejects, and a QueryStatus result that is no AsyncStatus (S_OK included).
ErrorCodes == AsyncHResults \cup {E_NOINTERFACE}

\* From<HRESULT> for VssAsyncError: Self { hresult: value, .. }
VssAsyncErrorFrom(hr) == [hresult |-> hr]

\* Mutant: the conversion back answers a fixed code.
HresultFrom_Generic(e) == E_NOINTERFACE

\* From<VssAsyncError> for HRESULT: value.hresult
HresultFrom(e) == e.hresult

\* From<HRESULT> for a generated error type: Self(value).
ErrorTypeFrom(hr) == [taken |-> TRUE, code |-> hr]

\* async_error(self): self.hresult.into()
AsyncErrorOf(e) == ErrorTypeFrom(e.hresult)

\* underlying_error(self): self.hresult.into()
UnderlyingErrorOf(e) == ErrorTypeFrom(e.hresult)

InitError == InitAsync

\* A call on the task failed with hr: the `?` builds the error with From.
ErrFrom(hr) ==
    /\ errv' = [NoErrv EXCEPT !.set = TRUE, !.value = VssAsyncErrorFrom(hr),
                     !.built = hr]
    /\ UNCHANGED comVars
    /\ UNCHANGED <<views, task, asyncCalls, outcome, reported, wframe>>
    /\ UNCHANGED moreVars

\* The caller takes e.async_error(); e is Copy and stays usable.
TakeAsyncError ==
    /\ errv.set
    /\ errv.n < MaxProjections
    /\ errv' = [errv EXCEPT !.asyncErr = AsyncErrorOf(errv.value), !.n = @ + 1]
    /\ UNCHANGED comVars
    /\ UNCHANGED <<views, task, asyncCalls, outcome, reported, wframe>>
    /\ UNCHANGED moreVars

TakeUnderlyingError ==
    /\ errv.set
    /\ errv.n < MaxProjections
    /\ errv' = [errv EXCEPT !.underErr = UnderlyingErrorOf(errv.value), !.n = @ + 1]
    /\ UNCHANGED comVars
    /\ UNCHANGED <<views, task, asyncCalls, outcome, reported, wframe>>
    /\ UNCHANGED moreVars

\* HRESULT::from(e)
IntoHresult ==
    /\ errv.set
    /\ errv.n < MaxProjections
    /\ errv' = [errv EXCEPT !.back = [taken |-> TRUE, code |-> HresultFrom(errv.value)],
                    !.n = @ + 1]
    /\ UNCHANGED comVars
    /\ UNCHANGED <<views, task, asyncCalls, outcome, reported, wframe>>
    /\ UNCHANGED moreVars

NextError ==
    \/ \E hr \in ErrorCodes : ErrFrom(hr)
    \/ TakeAsyncError
    \/ TakeUnderlyingError
    \/ IntoHresult

SpecError == InitError /\ [][NextError]_vars

(***************************************************************************)
(* EnumObject and EnumObjectIterator (src/vss.rs): an iterator that        *)
(* fetches the enumerator's elements through a buffer.                     *)
(***************************************************************************)
\* Elements of the enumerated list, buffer sizes tried, iterators made over
\* one enumerator, Next calls that fail, next() calls on one iterator.
MaxItems == 3
MaxBuffer == 3
MaxIterators == 2
MaxFetchErrors == 1
MaxNextCalls == 5

S_FALSE == 1
INLINED_SIZE == 2
EnumErrors == OtherHResults \ {S_FALSE}

\* EnumObjectIteratorBuffer::new: the inlined array or a Vec of defaults.
BufferNew(buffer_size) ==
    IF buffer_size > INLINED_SIZE
    THEN [inlined |-> FALSE, slots |-> [i \in 1..buffer_size |-> Unknown],
          wanted_size |-> buffer_size]
    ELSE [inlined |-> TRUE, slots |-> [i \in 1..INLINED_SIZE |-> Unknown],
          wanted_size |-> buffer_size]

\* Mutant: the slice is the whole inlined array.
BufLen_WholeArray(b) == Len(b.slots)

\* as_mut_slice().len(): buffer[..wanted_size] or the whole Vec.
BufLen(b) == IF b.inlined THEN b.wanted_size ELSE Len(b.slots)

\* buffer.len().try_into().unwrap_or(ULONG::MAX)
Wanted(len) == IF len > U32_MAX THEN U32_MAX ELSE len

\* IVssEnumObject::Next(wanted, buffer, &fetched): the next elements in
\* order, S_FALSE when fewer than wanted were left; an enumerator that does
\* not conform may hand out fewer than it has; any call may fail.
ForeignNext(e, wanted) ==
    LET left == e.items - e.cursor
        full == Min({wanted, left})
        counts == IF e.conforming THEN {full} ELSE 0..full
    IN  {[hr |-> IF k = wanted THEN S_OK ELSE S_FALSE,
          fetched |-> k,
          elems |-> [i \in 1..k |-> e.cursor + i],
          e |-> [e EXCEPT !.cursor = @ + k, !.fetches = @ + 1]] : k \in counts}
        \cup
        {[hr |-> hr, fetched |-> 0, elems |-> <<>>,
          e |-> [e EXCEPT !.fetches = @ + 1, !.errors = @ + 1]] :
            hr \in IF e.errors < MaxFetchErrors THEN EnumErrors ELSE {}}

\* Mutant: a failed Next is taken for the end of the list.
EnumObjectNext_ErrIsDone(e, len) ==
    {[ret |-> "Ok", hr |-> a.hr, fetched |-> a.fetched, done |-> a.hr # S_OK,
      elems |-> a.elems, e |-> a.e] : a \in ForeignNext(e, Wanted(len))}

\* IEnumObject::next for EnumObject.
EnumObjectNext(e, len) ==
    {LET done == a.hr = S_FALSE
     IN  IF done \/ a.hr = S_OK
         THEN [ret |-> "Ok", hr |-> a.hr, fetched |-> a.fetched, done |-> done,
               elems |-> a.elems, e |-> a.e]
         ELSE [ret |-> "Err", hr |-> a.hr, fetched |-> 0, done |-> FALSE,
               elems |-> <<>>, e |-> a.e] :
        a \in ForeignNext(e, Wanted(len))}

\* The slots after the foreign Next wrote the fetched elements.
Written(slots, elems) ==
    [i \in 1..Len(slots) |-> IF i <= Len(elems) THEN elems[i] ELSE slots[i]]

\* Mutant: a fetch that filled the buffer also counts as the end.
Exhausted_WhenFull(position, length, len) == position > 0 /\ length <= len

\* self.position > 0 && self.length < buffer.len()
Exhausted(position, length, len) == position > 0 /\ length < len

InitIter ==
    /\ rawPtr = "comp"
    /\ handles = [h \in HandleIds |->
                    IF h = 1 THEN [state |-> "live", iface |-> "IVssEnumObject",
                                   comp |-> "comp", cell |-> NoRc]
                    ELSE FreeHandle]
    /\ rcs = [r \in RcIds |-> 0]
    /\ foreign = [count |-> 1, freed |-> FALSE, misused |-> FALSE,
                  supported |-> {"IVssEnumObject"}, conforming |-> TRUE]
    /\ held = 1
    /\ calls = [addRef |-> 0, release |-> 0, queryInterface |-> 0, qiOk |-> 0]
    /\ ops = [clone |-> 0, drop |-> 0]
    /\ pc = "idle"
    /\ frame = NoFrame
    /\ result = NoResult
    /\ ExtViewsInit
    /\ etype = "none"
    /\ \E n \in 0..MaxItems, conf \in BOOLEAN :
          enumr = [NoEnum EXCEPT !.items = n, !.conforming = conf]
    /\ it = NoIt
    /\ yielded = <<>>
    /\ props = <<>>
    /\ mem = <<>>
    /\ conc = NoConc
    /\ flow = NoFlow

\* EnumObjectIterator::new(enumerator, buffer_size), buffer_size not 0.
IterNew(buffer_size) ==
    /\ ~it.alive
    /\ it.made < MaxIterators
    /\ buffer_size # 0
    /\ it' = [alive |-> TRUE, buffer |-> BufferNew(buffer_size),
              position |-> 0, length |-> 0, last |-> "none", calls |-> 0,
              made |-> it.made + 1, sizes |-> it.sizes \cup {buffer_size}]
    /\ UNCHANGED <<enumr, yielded>>
    /\ UNCHANGED comVars
    /\ UNCHANGED extVars
    /\ UNCHANGED <<etype, props, mem, conc, flow>>

\* Iterator::next for EnumObjectIterator.
IterNext ==
    /\ it.alive
    /\ it.calls < MaxNextCalls
    /\ LET len == BufLen(it.buffer)
           slots == it.buffer.slots
       IN  IF it.position < it.length
           THEN /\ it' = [it EXCEPT !.buffer.slots[it.position + 1] = Unknown,
                                    !.position = @ + 1,
                                    !.last = "Ok", !.calls = @ + 1]
                /\ yielded' = Append(yielded, slots[it.position + 1])
                /\ UNCHANGED enumr
           ELSE IF Exhausted(it.position, it.length, len)
           THEN /\ it' = [it EXCEPT !.last = "None", !.calls = @ + 1]
                /\ UNCHANGED <<enumr, yielded>>
           ELSE \E info \in EnumObjectNext(enumr, len) :
                   /\ enumr' = info.e
                   /\ IF info.ret = "Err"
                      THEN /\ it' = [it EXCEPT !.last = "Err", !.calls = @ + 1]
                           /\ UNCHANGED yielded
                      ELSE LET got == Written(slots, info.elems)
                           IN  IF info.fetched >= 1
                               THEN /\ it' = [it EXCEPT
                                               !.buffer.slots = [got EXCEPT ![1] = Unknown],
                                               !.length = info.fetched,
                                               !.position = 1,
                                               !.last = "Ok", !.calls = @ + 1]
                                    /\ yielded' = Append(yielded, got[1])
                               ELSE /\ it' = [it EXCEPT
                                               !.buffer.slots = got,
                                               !.length = info.fetched,
                                               !.position = 1,
                                               !.last = "None", !.calls = @ + 1]
                                    /\ UNCHANGED yielded
    /\ UNCHANGED comVars
    /\ UNCHANGED extVars
    /\ UNCHANGED <<etype, props, mem, conc, flow>>

\* The iterator goes out of scope: what its buffer still held is freed.
IterDrop ==
    /\ it.alive
    /\ it' = [it EXCEPT !.alive = FALSE, !.buffer = NoBuffer,
                        !.position = 0, !.length = 0]
    /\ UNCHANGED <<enumr, yielded>>
    /\ UNCHANGED comVars
    /\ UNCHANGED extVars
    /\ UNCHANGED <<etype, props, mem, conc, flow>>

NextIter ==
    \/ \E buffer_size \in 0..MaxBuffer : IterNew(buffer_size)
    \/ IterNext
    \/ IterDrop

SpecIter == InitIter /\ [][NextIter]_vars

(***************************************************************************)
(* ObjectProperties (src/vss.rs): a tagged union whose Snapshot and        *)
(* Provider variants own memory the foreign system allocated.              *)
(***************************************************************************)
\* ObjectProperties values in scope; objects the enumerator handed out.
MaxProps == 4
MaxObjects == 2

PropIds == 1..MaxProps
ObjectIds == 1..MaxObjects
ObjectTypes == {"Unknown", "None", "SnapshotSet", "Snapshot", "Provider"}
NoProps == [state |-> "none", type |-> "Unknown", obj |-> 0]

\* as_object_mut() is Some: the variants that own memory.
OwnsMemory(v) == v.type \in {"Snapshot", "Provider"}

\* unchecked_free: the memory after the variant's unchecked_free ran.
UncheckedFree(v, m) ==
    IF OwnsMemory(v) THEN [m EXCEPT ![v.obj].freed = @ + 1] ELSE m

\* Mutant: the source keeps its type.
Disarmed_Not(v) == v

\* self.0.Type = ObjectType::Unknown.into(): the union bytes stay, the
\* discriminator is reset.
Disarmed(v) == [v EXCEPT !.type = "Unknown"]

InitProps ==
    /\ rawPtr = "comp"
    /\ handles = [h \in HandleIds |->
                    IF h = 1 THEN [state |-> "live", iface |-> "IVssEnumObject",
                                   comp |-> "comp", cell |-> NoRc]
                    ELSE FreeHandle]
    /\ rcs = [r \in RcIds |-> 0]
    /\ foreign = [count |-> 1, freed |-> FALSE, misused |-> FALSE,
                  supported |-> {"IVssEnumObject"}, conforming |-> TRUE]
    /\ held = 1
    /\ calls = [addRef |-> 0, release |-> 0, queryInterface |-> 0, qiOk |-> 0]
    /\ ops = [clone |-> 0, drop |-> 0]
    /\ pc = "idle"
    /\ frame = NoFrame
    /\ result = NoResult
    /\ ExtViewsInit
    /\ etype = "none"
    /\ enumr = NoEnum
    /\ it = NoIt
    /\ yielded = <<>>
    /\ \E types \in [ObjectIds -> ObjectTypes] :
          /\ props = [p \in PropIds |->
                        IF p \in ObjectIds
                        THEN [state |-> "live", type |-> types[p], obj |-> p]
                        ELSE NoProps]
          /\ mem = [o \in ObjectIds |-> [type |-> types[o], freed |-> 0]]
    /\ conc = NoConc
    /\ flow = NoFlow

\* take(&mut self) -> Self
PropsTake(p) ==
    /\ props[p].state = "live"
    /\ \E q \in PropIds :
          /\ props[q].state = "none"
          /\ \A r \in PropIds : props[r].state = "none" => q <= r
          /\ props' = [props EXCEPT ![q] = props[p], ![p] = Disarmed(props[p])]
    /\ UNCHANGED mem
    /\ UNCHANGED comVars
    /\ UNCHANGED extVars
    /\ UNCHANGED <<etype, enumr, it, yielded, conc, flow>>

\* free(&mut self)
PropsFree(p) ==
    /\ props[p].state = "live"
    /\ mem' = UncheckedFree(props[p], mem)
    /\ props' = [props EXCEPT ![p] = Disarmed(props[p])]
    /\ UNCHANGED comVars
    /\ UNCHANGED extVars
    /\ UNCHANGED <<etype, enumr, it, yielded, conc, flow>>

\* Drop for ObjectProperties
PropsDrop(p) ==
    /\ props[p].state = "live"
    /\ mem' = UncheckedFree(props[p], mem)
    /\ props' = [props EXCEPT ![p].state = "dropped"]
    /\ UNCHANGED comVars
    /\ UNCHANGED extVars
    /\ UNCHANGED <<etype, enumr, it, yielded, conc, flow>>

NextProps ==
    \/ \E p \in PropIds : PropsTake(p)
    \/ \E p \in PropIds : PropsFree(p)
    \/ \E p \in PropIds : PropsDrop(p)

SpecProps == InitProps /\ [][NextProps]_vars

(***************************************************************************)
(* The tracked counter under threads (src/safe_com_component.rs): the      *)
(* counter is the strong count of an Rc<()>, a plain Cell read and then    *)
(* written by Rc::clone and by Rc's drop.                                  *)
(***************************************************************************)
\* Mutant: Rc::clone stores the count it read.
IncStrong_Same(n) == n

\* Rc::inc_strong: strong.set(strong + 1)
IncStrong(n) == n + 1

\* Rc::dec_strong: strong.set(strong - 1)
DecStrong(n) == n - 1

\* A thread may act: every thread when the handles were moved across
\* threads behind the type system's back, the first thread only otherwise.
MayAct(t) == conc.confined => t = 1

InitThreads ==
    /\ rawPtr = "comp"
    /\ handles = [h \in HandleIds |->
                    IF h = 1 THEN [state |-> "live", iface |-> AdoptedInterface,
                                   comp |-> "comp", cell |-> 1]
                    ELSE FreeHandle]
    /\ rcs = [r \in RcIds |-> IF r = 1 THEN 1 ELSE 0]
    /\ foreign = [count |-> 1, freed |-> FALSE, misused |-> FALSE,
                  supported |-> {AdoptedInterface}, conforming |-> TRUE]
    /\ held = 1
    /\ calls = [addRef |-> 0, release |-> 0, queryInterface |-> 0, qiOk |-> 0]
    /\ ops = [clone |-> 0, drop |-> 0]
    /\ pc = "idle"
    /\ frame = NoFrame
    /\ result = NoResult
    /\ ExtViewsInit
    /\ etype = "none"
    /\ enumr = NoEnum
    /\ it = NoIt
    /\ yielded = <<>>
    /\ props = <<>>
    /\ mem = <<>>
    /\ \E c \in BOOLEAN :
          conc = [NoConc EXCEPT !.confined = c, !.strong = 1, !.live = 1,
                                !.owned[1] = 1]
    /\ flow = NoFlow

ThreadsUnchanged ==
    /\ UNCHANGED comVars
    /\ UNCHANGED extVars
    /\ UNCHANGED <<etype, enumr, it, yielded, props, mem, flow>>

\* clone: Rc::clone reads the strong count ...
ThreadCloneRead(t) ==
    /\ MayAct(t)
    /\ conc.at[t] = "idle"
    /\ conc.owned[t] >= 1
    /\ conc.started < MaxThreadOps
    /\ conc' = [conc EXCEPT !.at[t] = "clone", !.tmp[t] = conc.strong,
                            !.started = @ + 1]
    /\ ThreadsUnchanged

\* ... and stores it incremented; the new handle exists.
ThreadCloneWrite(t) ==
    /\ conc.at[t] = "clone"
    /\ conc' = [conc EXCEPT !.at[t] = "idle", !.strong = IncStrong(conc.tmp[t]),
                            !.tmp[t] = 0,
                            !.live = @ + 1, !.owned[t] = @ + 1]
    /\ ThreadsUnchanged

\* drop: Rc's drop reads the strong count ...
ThreadDropRead(t) ==
    /\ MayAct(t)
    /\ conc.at[t] = "idle"
    /\ conc.owned[t] >= 1
    /\ conc.started < MaxThreadOps
    /\ conc' = [conc EXCEPT !.at[t] = "drop", !.tmp[t] = conc.strong,
                            !.started = @ + 1]
    /\ ThreadsUnchanged

\* ... and stores it decremented; the handle is gone.
ThreadDropWrite(t) ==
    /\ conc.at[t] = "drop"
    /\ conc' = [conc EXCEPT !.at[t] = "idle", !.strong = DecStrong(conc.tmp[t]),
                            !.tmp[t] = 0,
                            !.live = @ - 1, !.owned[t] = @ - 1]
    /\ ThreadsUnchanged

\* A handle is moved to another thread (possible only through unsafe code:
\* SafeCOMComponent holds a NonNull and an Rc and so is not Send).
ThreadSend(t, u) ==
    /\ ~conc.confined
    /\ t # u
    /\ conc.at[t] = "idle"
    /\ conc.owned[t] >= 2
    /\ conc' = [conc EXCEPT !.owned[t] = @ - 1, !.owned[u] = @ + 1]
    /\ ThreadsUnchanged

NextThreads ==
    \/ \E t \in Threads : ThreadCloneRead(t)
    \/ \E t \in Threads : ThreadCloneWrite(t)
    \/ \E t \in Threads : ThreadDropRead(t)
    \/ \E t \in Threads : ThreadDropWrite(t)
    \/ \E t, u \in Threads : ThreadSend(t, u)

SpecThreads == InitThreads /\ [][NextThreads]_vars

(***************************************************************************)
(* The example's backup flow (examples/make-backup-snapshot.rs):           *)
(* VssSnapshot::create_snapshot, then finish() or drop.                    *)
(***************************************************************************)
\* The calls of create_snapshot and of finish, in order.
FlowSteps == <<"new", "initialize_for_backup", "set_context", "set_backup_state",
               "gather_writer_metadata", "gather_wait", "is_volume_supported",
               "start_snapshot_set", "add_to_snapshot_set",
               "prepare_for_backup", "prepare_wait",
               "do_snapshot_set", "do_snapshot_wait", "get_snapshot_properties",
               "snapshot",
               "backup_complete", "complete_wait",
               "delete_snapshot", "delete_snapshot_set">>

\* The steps that are a vss_async_wait(..)?
WaitSteps == {"gather_wait", "prepare_wait", "do_snapshot_wait", "complete_wait"}
\* The steps that are a call followed by ?
CallSteps == {"new", "initialize_for_backup", "set_context", "set_backup_state",
              "gather_writer_metadata", "is_volume_supported",
              "start_snapshot_set", "add_to_snapshot_set", "prepare_for_backup",
              "do_snapshot_set", "get_snapshot_properties", "backup_complete"}
\* delete_snapshots: the result is not looked at.
IgnoredSteps == {"delete_snapshot", "delete_snapshot_set"}

StepAfter(step) == FlowSteps[(CHOOSE i \in 1..Len(FlowSteps) : FlowSteps[i] = step) + 1]

\* The BackupComponents is owned by a PreparedBackup, whose Drop aborts.
InPreparedBackup(step) ==
    step \in {"do_snapshot_set", "do_snapshot_wait", "get_snapshot_properties",
            "snapshot", "backup_complete", "complete_wait",
            "delete_snapshot", "delete_snapshot_set"}

\* What vss_async_wait can return: Ok, the wait's or the status query's
\* error, the timeout error, or the panic of expect() when no timeout was
\* given.
FlowWaitResults(t) ==
    {"Ok", "Err"} \cup (IF t.some THEN {"Timeout"} ELSE {"Panic"})

\* The flow leaves through ? (or unwinds): the locals are dropped.
\* Drop for PreparedBackup calls abort_backup and then drops the instance;
\* a plain BackupComponents local is only released.
FlowLeave(f, ret) ==
    IF InPreparedBackup(f.pc)
    THEN [f EXCEPT !.pc = "done", !.ret = ret, !.leftAt = f.pc,
                   !.aborts = @ + 1, !.released = TRUE]
    ELSE [f EXCEPT !.pc = "done", !.ret = ret, !.leftAt = f.pc,
                   !.released = (f.pc # "new")]

InitBackup ==
    /\ rawPtr = "comp"
    /\ handles = [h \in HandleIds |->
                    IF h = 1 THEN [state |-> "live", iface |-> AdoptedInterface,
                                   comp |-> "comp", cell |-> NoRc]
                    ELSE FreeHandle]
    /\ rcs = [r \in RcIds |-> 0]
    /\ foreign = [count |-> 1, freed |-> FALSE, misused |-> FALSE,
                  supported |-> {AdoptedInterface}, conforming |-> TRUE]
    /\ held = 1
    /\ calls = [addRef |-> 0, release |-> 0, queryInterface |-> 0, qiOk |-> 0]
    /\ ops = [clone |-> 0, drop |-> 0]
    /\ pc = "idle"
    /\ frame = NoFrame
    /\ result = NoResult
    /\ ExtViewsInit
    /\ etype = "none"
    /\ enumr = NoEnum
    /\ it = NoIt
    /\ yielded = <<>>
    /\ props = <<>>
    /\ mem = <<>>
    /\ conc = NoConc
    /\ \E t \in Timeouts : flow = [NoFlow EXCEPT !.pc = "new", !.timeout = t]

FlowUnchanged ==
    /\ UNCHANGED comVars
    /\ UNCHANGED extVars
    /\ UNCHANGED <<etype, enumr, it, yielded, props, mem, conc>>

\* is_volume_supported answered false: return Err(UnsupportedVolumeError).
FlowUnsupported ==
    /\ flow.pc = "is_volume_supported"
    /\ flow' = FlowLeave(flow, "Unsupported")
    /\ FlowUnchanged

\* A call followed by ?: on success the flow goes on, on failure it leaves.
FlowCall(ok) ==
    /\ flow.pc \in CallSteps
    /\ flow' = IF ok
               THEN [flow EXCEPT !.pc = StepAfter(flow.pc),
                                 !.prepared = @ \/ flow.pc = "prepare_for_backup"]
               ELSE FlowLeave(flow, "Err")
    /\ FlowUnchanged

\* vss_async_wait(task, timeout_in_millis)?
FlowWait(res) ==
    /\ flow.pc \in WaitSteps
    /\ res \in FlowWaitResults(flow.timeout)
    /\ flow' = IF res = "Ok"
               THEN [flow EXCEPT !.pc = StepAfter(flow.pc)]
               ELSE FlowLeave(flow, res)
    /\ FlowUnchanged

\* VssSnapshot::finish(self): the caller finishes the backup.
FlowFinish ==
    /\ flow.pc = "snapshot"
    /\ flow' = [flow EXCEPT !.pc = StepAfter(flow.pc)]
    /\ FlowUnchanged

\* The caller drops the VssSnapshot without finish().
FlowDropSnapshot ==
    /\ flow.pc = "snapshot"
    /\ flow' = FlowLeave(flow, "Dropped")
    /\ FlowUnchanged

\* finish: the two delete_snapshots, then self.backup_comp = None; Ok(()).
\* The instance is released there, and Drop for PreparedBackup finds None.
FlowDelete ==
    /\ flow.pc \in IgnoredSteps
    /\ flow' = IF flow.pc = "delete_snapshot_set"
               THEN [flow EXCEPT !.pc = "done", !.ret = "Ok", !.released = TRUE,
                                 !.finishedOk = TRUE]
               ELSE [flow EXCEPT !.pc = StepAfter(flow.pc)]
    /\ FlowUnchanged

NextBackup ==
    \/ \E ok \in BOOLEAN : FlowCall(ok)
    \/ FlowUnsupported
    \/ \E res \in {"Ok", "Err", "Timeout", "Panic"} : FlowWait(res)
    \/ FlowFinish
    \/ FlowDropSnapshot
    \/ FlowDelete

SpecBackup == InitBackup /\ [][NextBackup]_vars

(***************************************************************************)
(* Measures used by the properties.                                        *)
(***************************************************************************)
\* Foreign references acquired so far: the adopted one, one for each AddRef
\* and one for each QueryInterface that handed out a pointer.
Acquired == 1 + calls.addRef + calls.qiOk

Max(S) == CHOOSE x \in S : \A y \in S : x >= y
\* The lineage's tracked counter: what reference_count() answers on its handles.
TrackedCount ==
    IF Existing = {} THEN 0 ELSE Max({ReferenceCount(h) : h \in Existing})

Adopted == pc # "start" /\ rawPtr # "null"
AllDropped == Adopted /\ pc = "idle" /\ Existing = {}

(***************************************************************************)
(* C1. For every sequence of clone and drop operations on one lineage the  *)
(* number of foreign Release calls never exceeds the number of foreign     *)
(* references acquired (the adopted one plus one for each clone, and one   *)
(* for each successful query), and the two are equal once every handle has *)
(* been dropped; each completed drop has issued exactly one Release and    *)
(* each completed clone exactly one AddRef, in whatever order the handles  *)
(* are dropped; the object is freed by the last Release and never used or  *)
(* released after that.                                                    *)
(***************************************************************************)
C1_ReleaseBalance ==
    Adopted =>
        /\ calls.release <= Acquired
        /\ AllDropped => calls.release = Acquired
        /\ pc = "drop_fields" => calls.release = ops.drop + 1
        /\ pc # "drop_fields" => calls.release = ops.drop
        /\ calls.addRef = ops.clone
        /\ foreign.freed <=> calls.release = Acquired
        /\ ~foreign.misused

\* Scenario A: adopt, clone twice, drop all three: three releases.
C1_Witness ==
    /\ AllDropped
    /\ calls.addRef = 2
    /\ calls.qiOk = 0
    /\ calls.release = 3
    /\ foreign.freed

(***************************************************************************)
(* C2. Cloning a handle whose reference_count() equals the maximum of the  *)
(* foreign counter panics, before any AddRef is issued and before the      *)
(* tracked counter or the set of live handles changes: no clone goes past  *)
(* its check at the maximum, a clone that ends at its check has panicked   *)
(* at the maximum and changed nothing, and an AddRef is only ever issued   *)
(* by a clone that started below the maximum.                              *)
(***************************************************************************)
C2_CloneAtMaxIsFatal ==
    [][ /\ (pc = "idle" /\ pc' = "clone_rc") =>
              RefCountOf(handles, rcs, frame'.self) # U32_MAX
        /\ (pc = "idle" /\ pc' = "idle" /\ result'.op = "clone") =>
              /\ result'.ret = "panic"
              /\ result'.countBefore = U32_MAX
              /\ UNCHANGED <<handles, rcs, foreign, held, calls, ops>>
        /\ (calls'.addRef # calls.addRef) =>
              /\ result.op = "clone"
              /\ result.countBefore # U32_MAX
      ]_vars

C2_Witness ==
    /\ pc = "idle"
    /\ result.op = "clone"
    /\ result.ret = "panic"
    /\ result.countBefore = U32_MAX
    /\ ReferenceCount(result.self) = U32_MAX
    /\ Cardinality(Live) = U32_MAX
    /\ foreign.count = U32_MAX

(***************************************************************************)
(* C3. With the handle adopted at a foreign count of 1 and the foreign     *)
(* counter changed only by this lineage's clone, query_interface and drop, *)
(* the number of foreign references outstanding never exceeds the          *)
(* counter's maximum and the counter always equals it: it never wraps.     *)
(***************************************************************************)
C3_ForeignCounterNeverWraps ==
    /\ held <= U32_MAX
    /\ foreign.count = held

\* The counter stands at its maximum and the guard has refused to go further.
C3_Witness ==
    /\ held = U32_MAX
    /\ foreign.count = U32_MAX
    /\ result.ret = "panic"
    /\ result.op \in {"clone", "query"}
    /\ result.countBefore = U32_MAX

C5_QuerySharesLineageCounter ==
    /\ [][ /\ (pc = "qi_call" /\ result'.hr = S_OK /\ result'.ptr # "null") =>
                 /\ pc' = "qi_rc"
                 /\ handles'[result'.new].state = "live"
                 /\ handles[result'.new].state = "free"
                 /\ handles'[result'.new].iface = result'.iface
                 /\ result'.new # result'.self
                 /\ held' = held + 1
           /\ (pc = "qi_rc") =>
                 /\ pc' = "idle"
                 /\ result'.ret = "some"
                 /\ {result'.self, result'.new} \subseteq Live'
                 /\ handles'[result'.new].cell # NoRc
                 /\ handles'[result'.new].cell = handles'[result'.self].cell
                 /\ RefCountOf(handles', rcs', result'.self) = result'.countBefore + 1
                 /\ RefCountOf(handles', rcs', result'.new) = result'.countBefore + 1
           /\ (pc = "idle" /\ pc' = "drop_fields") =>
                 calls'.release = calls.release + 1
           /\ (pc = "drop_fields") => calls'.release = calls.release
         ]_vars
    /\ [](pc = "idle" =>
            \A h1, h2 \in Live :
                h1 # h2 => /\ handles[h1].cell # NoRc
                           /\ handles[h1].cell = handles[h2].cell)

\* A query on a handle that had been cloned before has returned a handle.
C5_Witness ==
    /\ pc = "idle"
    /\ result.op = "query"
    /\ result.ret = "some"
    /\ result.countBefore > 1
    /\ {result.self, result.new} \subseteq Live
    /\ ReferenceCount(result.new) = result.countBefore + 1
    /\ ReferenceCount(result.self) = result.countBefore + 1

(***************************************************************************)
(* C6. When the foreign QueryInterface reports E_NOINTERFACE,              *)
(* query_interface returns None, and the foreign count, the tracked        *)
(* counter (the Rcs and the cells) and the handles are what they were when *)
(* the query started.                                                      *)
(***************************************************************************)
C6_NotSupportedChangesNothing ==
    [][ (pc = "qi_call" /\ result'.hr = E_NOINTERFACE) =>
            /\ pc' = "idle"
            /\ result'.ret = "none"
            /\ UNCHANGED <<handles, rcs, foreign, held>>
            /\ calls'.release = calls.release
            /\ calls'.addRef = calls.addRef
            /\ foreign'.count = result'.foreignBefore
            /\ RefCountOf(handles', rcs', result'.self) = result'.countBefore
      ]_vars

\* Scenario B: the adopted handle alone, queried for what the object lacks.
C6_Witness ==
    /\ pc = "idle"
    /\ result.op = "query"
    /\ result.hr = E_NOINTERFACE
    /\ result.ret = "none"
    /\ foreign.conforming
    /\ result.iface \notin foreign.supported
    /\ Live = {result.self}
    /\ foreign.count = 1
    /\ handles[result.self].cell = NoRc

(***************************************************************************)
(* C7. When the foreign QueryInterface returns a status that is neither    *)
(* S_OK nor E_NOINTERFACE, query_interface panics: it returns neither None *)
(* nor a handle (no handle is created), and there is no error value among  *)
(* its results.                                                            *)
(***************************************************************************)
C7_UnexpectedStatusIsFatal ==
    /\ [][ (pc = "qi_call" /\ result'.hr \notin {S_OK, E_NOINTERFACE}) =>
               /\ pc' = "idle"
               /\ result'.ret = "panic"
               /\ handles' = handles
               /\ rcs' = rcs
         ]_vars
    /\ [](result.op = "query" => result.ret \in {"running", "some", "none", "panic"})

C7_Witness ==
    /\ pc = "idle"
    /\ result.op = "query"
    /\ result.hr \in OtherHResults
    /\ result.hr > 0
    /\ result.ret = "panic"
    /\ Cardinality(Live) > 1

(***************************************************************************)
(* C8. query_interface checks for overflow before it calls the foreign     *)
(* QueryInterface: no query goes past its check at the maximum, a query    *)
(* that ends at its check has panicked at the maximum with no foreign call *)
(* made, whatever interface was asked for, and a foreign QueryInterface is *)
(* only ever made by a query that started below the maximum.               *)
(***************************************************************************)
C8_OverflowCheckBeforeForeignQuery ==
    [][ /\ (pc = "idle" /\ pc' = "qi_call") =>
              RefCountOf(handles, rcs, frame'.self) # U32_MAX
        /\ (pc = "idle" /\ pc' = "idle" /\ result'.op = "query") =>
              /\ result'.ret = "panic"
              /\ result'.countBefore = U32_MAX
              /\ UNCHANGED <<handles, rcs, foreign, held, calls, ops>>
        /\ (calls'.queryInterface # calls.queryInterface) =>
              /\ pc = "qi_call"
              /\ result.op = "query"
              /\ result.countBefore # U32_MAX
      ]_vars

\* Fatal at the maximum, asking for an interface the object would have
\* answered not-supported for; no QueryInterface was ever called.
C8_Witness ==
    /\ pc = "idle"
    /\ result.op = "query"
    /\ result.ret = "panic"
    /\ result.countBefore = U32_MAX
    /\ foreign.conforming
    /\ result.iface \notin foreign.supported
    /\ calls.queryInterface = 0

(***************************************************************************)
(* C9. On an object that follows the QueryInterface contract, querying a   *)
(* handle for its own capability type returns Some; and when the returned  *)
(* handle is dropped next, the foreign count and the tracked count are     *)
(* back at their values before the query, while the handle queried is      *)
(* still live and the object still holds its reference (not freed).        *)
(***************************************************************************)
C9_QueryOwnTypeRoundTrip ==
    [][ /\ (/\ pc = "qi_call"
            /\ foreign.conforming
            /\ frame.iface = handles[frame.self].iface) =>
               /\ pc' = "qi_rc"
               /\ result'.hr = S_OK
        /\ (pc = "qi_rc") => (pc' = "idle" /\ result'.ret = "some")
        /\ (/\ pc = "drop_fields"
            /\ result.op = "query"
            /\ result.ret = "some"
            /\ frame.self = result.new
            /\ result.iface = handles[result.self].iface) =>
               /\ foreign'.count = result.foreignBefore
               /\ held' = result.foreignBefore
               /\ RefCountOf(handles', rcs', result.self) = result.countBefore
               /\ result.self \in Live'
               /\ result.new \notin Existing'
               /\ foreign'.count >= 1
               /\ ~foreign'.freed
               /\ ~foreign'.misused
      ]_vars

\* The handle returned by a query for the queried handle's own type has
\* just been dropped.
C9_Witness ==
    /\ pc = "idle"
    /\ foreign.conforming
    /\ result.op = "drop"
    /\ result.prev.op = "query"
    /\ result.prev.ret = "some"
    /\ result.prev.new = result.self
    /\ result.prev.self \in Live
    /\ result.prev.iface = handles[result.prev.self].iface
    /\ foreign.count = result.foreignBefore
    /\ ReferenceCount(result.prev.self) = result.countBefore

(***************************************************************************)
(* C10. No handle wraps a null pointer: SafeCOMComponent::new with a null  *)
(* pointer panics, and a foreign query that reports S_OK with a null       *)
(* out-pointer panics; neither creates a handle, so no Release is issued   *)
(* for it.                                                                 *)
(***************************************************************************)
C10_NoNullHandle ==
    /\ [](\A h \in Existing : handles[h].comp # "null")
    /\ [](rawPtr = "null" => (Existing = {} /\ calls.release = 0))
    /\ [][ /\ (pc = "start" /\ rawPtr = "null") =>
                 /\ result'.ret = "panic"
                 /\ handles' = handles
                 /\ calls' = calls
           /\ (pc = "qi_call" /\ result'.hr = S_OK /\ result'.ptr = "null") =>
                 /\ pc' = "idle"
                 /\ result'.ret = "panic"
                 /\ handles' = handles
                 /\ calls'.release = calls.release
                 /\ held' = held
         ]_vars

\* A query answered S_OK with a null pointer has panicked.
C10_Witness ==
    /\ pc = "idle"
    /\ result.op = "query"
    /\ result.hr = S_OK
    /\ result.ptr = "null"
    /\ result.ret = "panic"
    /\ Live # {}

(***************************************************************************)
(* C11. Obtaining an ancestor view from a handle or from another view      *)
(* (deref, as_ref, borrow) makes no foreign call and changes neither the   *)
(* foreign count, the tracked count, nor the set of live handles.          *)
(***************************************************************************)
ViewTaken == views' # views /\ views \subseteq views'

C11_ViewIsFree ==
    [][ViewTaken =>
          /\ calls' = calls
          /\ foreign' = foreign
          /\ rcs' = rcs
          /\ handles' = handles
          /\ held' = held]_vars

\* A view exists although the only foreign calls made are the initial query.
C11_Witness ==
    /\ views # {}
    /\ calls = [addRef |-> 0, release |-> 0, queryInterface |-> 1, qiOk |-> 1]
    /\ foreign.count = 2
    /\ Live = {1, 2}

(***************************************************************************)
(* C12. Every view that is accessible refers to a handle that is live: a   *)
(* handle is never dropped while a view borrowed from it is in scope.      *)
(***************************************************************************)
C12_ViewsReferToLiveHandles ==
    \A v \in views :
        /\ handles[v.owner].state = "live"
        /\ ~foreign.freed

\* A handle has been dropped while a view of the other handle is in scope.
C12_Witness ==
    /\ ops.drop > 0
    /\ \E v \in views : handles[v.owner].state = "live"
    /\ Cardinality(Live) = 1

(***************************************************************************)
(* C13. Ancestor views compose: from BackupComponentsEx4 the chain of      *)
(* single deref steps passes IBackupComponentsEx4, Ex3, Ex2, Ex and ends   *)
(* at IBackupComponents; a view is always an ancestor of its owner's type  *)
(* and deriving it takes no new ownership.                                 *)
(***************************************************************************)
C13_ViewsCompose ==
    /\ DerefChain("BackupComponentsEx4") =
          <<"IBackupComponentsEx4", "IBackupComponentsEx3", "IBackupComponentsEx2",
            "IBackupComponentsEx", "IBackupComponents">>
    /\ \A i \in ChainInterfaces :
          /\ DerefTarget(WrapperOf(i)) \in ViewTypes
          /\ DerefChain(DerefTarget(WrapperOf(i))) =
                Tail(DerefChain(WrapperOf(i)))
    /\ DerefTarget("IBackupComponents") = "none"
    /\ \A v \in views : v.cap \in Ancestors(WrapperOf(handles[v.owner].iface))
    /\ pc = "idle" => held = Cardinality(Live)

\* The oldest view has been reached from a handle of the newest type.
C13_Witness ==
    \E v \in views :
        /\ handles[v.owner].iface = "IVssBackupComponentsEx4"
        /\ v.cap = "IBackupComponents"
        /\ [owner |-> v.owner, cap |-> "IBackupComponentsEx"] \in views

(***************************************************************************)
(* C14 as stated. wait(Some(T)) never returns Ok(()) while the task is     *)
(* still Pending.                                                          *)
(***************************************************************************)
C14_WaitNeverOkWhilePending ==
    ~(/\ task.conforming
      /\ outcome.op = "wait"
      /\ outcome.timeout.some
      /\ outcome.ret = "Ok"
      /\ outcome.taskAt = "Pending")

(***************************************************************************)
(* C14, amended. vss_async_wait with Some(T) reports the timeout outcome   *)
(* when the foreign wait returned success and query_status then reported   *)
(* Pending, and returns Ok(()) only after query_status reported Finished   *)
(* or Canceled; VssAsync::wait alone returns Ok(()) exactly when the       *)
(* foreign Wait returned S_OK, whatever the task's status.                 *)
(***************************************************************************)
C14_TimeoutToldByStatusRecheck ==
    /\ (outcome.op = "vss_async_wait" /\ outcome.ret = "Ok") =>
          /\ outcome.waitHr = S_OK
          /\ outcome.polled \in {"Finished", "Canceled"}
          /\ task.conforming => task.status = outcome.polled
    /\ (/\ outcome.op = "vss_async_wait"
        /\ outcome.ret # "none"
        /\ outcome.timeout.some
        /\ outcome.polled = "Pending") => outcome.ret = "Timeout"
    /\ outcome.op = "wait" => ((outcome.ret = "Ok") <=> (outcome.hr = S_OK))

\* vss_async_wait(task, Some(0)) has returned the timeout outcome for a task
\* that is still pending.
C14_Witness ==
    /\ pc = "idle"
    /\ outcome.op = "vss_async_wait"
    /\ outcome.timeout = [some |-> TRUE, ms |-> 0]
    /\ outcome.ret = "Timeout"
    /\ task.conforming
    /\ task.status = "Pending"

(***************************************************************************)
(* C15. Whenever the timeout outcome is reported, a cancel request was     *)
(* issued to the task before, and whether that cancel succeeded or failed  *)
(* does not change the outcome.                                            *)
(***************************************************************************)
C15_CancelBeforeTimeout ==
    /\ outcome.ret = "Timeout" =>
          /\ outcome.op = "vss_async_wait"
          /\ outcome.cancelIssued
          /\ asyncCalls.cancel >= 1
    /\ (outcome.cancelIssued /\ outcome.timeout.some) => outcome.ret = "Timeout"

\* The timeout outcome was returned although the cancel request failed.
C15_Witness ==
    /\ pc = "idle"
    /\ outcome.ret = "Timeout"
    /\ outcome.cancelIssued
    /\ outcome.cancelHr # S_OK

(***************************************************************************)
(* C16. The timeout outcome is produced only for an explicit timeout with  *)
(* the status still Pending after a successful wait; a wait without a      *)
(* timeout never yields it, and it carries no error code of either kind.   *)
(***************************************************************************)
C16_TimeoutOnlyExplicitAndPending ==
    /\ outcome.ret = "Timeout" =>
          /\ outcome.timeout.some
          /\ outcome.waitHr = S_OK
          /\ outcome.polled = "Pending"
          /\ outcome.hr = S_OK
    /\ ~outcome.timeout.some => outcome.ret # "Timeout"
    /\ outcome.op \in {"wait", "query_status", "cancel"} => outcome.ret # "Timeout"

\* Without a timeout, a wait that succeeded on a task reported Pending ended
\* in the helper's panic, not in the timeout outcome.
C16_Witness ==
    /\ outcome.op = "vss_async_wait"
    /\ ~outcome.timeout.some
    /\ outcome.polled = "Pending"
    /\ outcome.ret = "panic"

(***************************************************************************)
(* C17. For a task that follows the IVssAsync contract, the status that    *)
(* query_status reports only moves from Pending to Finished or Canceled:   *)
(* once it reported a terminal status every later query_status reports the *)
(* same, whatever wait, query_status and cancel calls are made, and no     *)
(* call changes a terminal task.                                           *)
(***************************************************************************)
Terminal == {"Finished", "Canceled"}

C17_TerminalStatusSticky ==
    [][task.conforming =>
          /\ (reported # "none" /\ reported' # reported) =>
                (reported = "Pending" /\ reported' \in Terminal)
          /\ task.status \in Terminal => task'.status = task.status
          /\ (outcome'.op = "query_status" /\ outcome'.ret = "Ok"
              /\ outcome' # outcome) => outcome'.status = task'.status]_vars

\* A terminal status was reported again after wait and cancel calls.
C17_Witness ==
    /\ task.conforming
    /\ reported \in Terminal
    /\ outcome.op = "query_status"
    /\ outcome.ret = "Ok"
    /\ asyncCalls.queryStatus >= 2
    /\ asyncCalls.cancel >= 1
    /\ asyncCalls.wait >= 1

(***************************************************************************)
(* C19. Dropping a VssAsync in any task state issues exactly one foreign   *)
(* Release and no Cancel, Wait or QueryStatus, and leaves the task as it   *)
(* is.                                                                     *)
(***************************************************************************)
DropBegins == pc \in {"idle", "vaw_drop"} /\ pc' = "drop_fields"
DropEnds == pc = "drop_fields" /\ pc' = "idle"

C19_DropOnlyReleases ==
    [][/\ DropBegins =>
             /\ calls' = [calls EXCEPT !.release = @ + 1]
             /\ asyncCalls' = asyncCalls
             /\ task' = task
       /\ DropEnds =>
             /\ calls' = calls
             /\ asyncCalls' = asyncCalls
             /\ task' = task]_vars

\* The handle was dropped while its task was pending with a cancellation
\* requested; the only foreign call of the drop was one Release.
C19_Witness ==
    /\ ops.drop = 1
    /\ calls.release = 1
    /\ task.status = "Pending"
    /\ task.cancelRequested
    /\ asyncCalls.cancel = 1
    /\ Existing = {}

(***************************************************************************)
(* C20. A VssAsyncError stores exactly the code it was built from:         *)
(* async_error() and underlying_error() both carry that code, taking them  *)
(* in any order and any number of times leaves the stored code as it was,  *)
(* and converting the error back gives the original code.                  *)
(***************************************************************************)
C20_ErrorStoresItsCode ==
    errv.set =>
        /\ errv.value.hresult = errv.built
        /\ errv.asyncErr.taken => errv.asyncErr.code = errv.built
        /\ errv.underErr.taken => errv.underErr.code = errv.built
        /\ errv.back.taken => errv.back.code = errv.built

\* Both projections and the conversion back were taken from one error.
C20_Witness ==
    /\ errv.set
    /\ errv.built = 1
    /\ errv.asyncErr.taken
    /\ errv.underErr.taken
    /\ errv.back.taken
    /\ errv.n = 3

(***************************************************************************)
(* C21. errors_as and untyped_errors only relabel the error type: they     *)
(* make no foreign call, leave the foreign and the tracked counts as they  *)
(* are, and the handle that results is the handle consumed: same task,     *)
(* same single reference to release.                                       *)
(***************************************************************************)
C21_RelabelIsFree ==
    [][etype' # etype =>
          /\ calls' = calls
          /\ asyncCalls' = asyncCalls
          /\ foreign' = foreign
          /\ rcs' = rcs
          /\ handles' = handles
          /\ held' = held
          /\ task' = task]_vars

\* A relabelled handle was dropped: one Release in all, no AddRef.
C21_Witness ==
    /\ etype = "HRESULT"
    /\ ops.drop = 1
    /\ calls.addRef = 0
    /\ calls.release = 1
    /\ foreign.freed

(***************************************************************************)
(* C22 as stated. For every timeout t, wait(Some(t)) asks the foreign Wait *)
(* for a bounded wait of t; an indefinite wait is asked for only by        *)
(* wait(None).                                                             *)
(***************************************************************************)
C22_OnlyNoneWaitsIndefinitely ==
    outcome.op = "wait" =>
        /\ outcome.timeout.some => (outcome.ms = outcome.timeout.ms /\ outcome.ms # INFINITE)
        /\ outcome.ms = INFINITE => ~outcome.timeout.some

(***************************************************************************)
(* C30. query_status returns Ok(status) exactly when QueryStatus returned  *)
(* S_OK and wrote one of the three status codes; for another return code   *)
(* the error carries that code, and for S_OK with any other value written  *)
(* the error carries the value written.                                    *)
(***************************************************************************)
C30_QueryStatusMapping ==
    outcome.op = "query_status" =>
        /\ (outcome.ret = "Ok") <=>
              (outcome.fhr = S_OK /\ outcome.fresult \in StatusCodes)
        /\ outcome.ret = "Ok" => StatusCode(outcome.status) = outcome.fresult
        /\ outcome.fhr # S_OK => (outcome.ret = "Err" /\ outcome.hr = outcome.fhr)
        /\ (outcome.fhr = S_OK /\ outcome.fresult \notin StatusCodes) =>
              (outcome.ret = "Err" /\ outcome.hr = outcome.fresult)

\* QueryStatus returned S_OK and wrote S_FALSE: the error carries S_FALSE.
C30_Witness ==
    /\ outcome.op = "query_status"
    /\ outcome.fhr = S_OK
    /\ outcome.fresult = 1
    /\ outcome.ret = "Err"
    /\ outcome.hr = 1

(***************************************************************************)
(* C27. Between operations reference_count() of any live handle equals the *)
(* number of live handles of its lineage; it is 1 for a handle that was    *)
(* never cloned or queried.                                                *)
(***************************************************************************)
C27_CountIsLiveHandles ==
    pc = "idle" =>
        \A h \in Live :
            /\ ReferenceCount(h) = Cardinality(Live)
            /\ (ops.clone = 0 /\ calls.queryInterface = 0) => ReferenceCount(h) = 1

\* Two handles were made from the first and one of the three was dropped.
C27_Witness ==
    /\ pc = "idle"
    /\ ops.clone >= 1
    /\ calls.qiOk >= 1
    /\ ops.drop >= 1
    /\ Cardinality(Live) = 2
    /\ \A h \in Live : ReferenceCount(h) = 2

(***************************************************************************)
(* C24. With a buffer size of 1 the iterator never holds an element that   *)
(* was fetched and not yielded, so dropping the iterator and making a new  *)
(* one over the same enumerator skips no element: what was yielded is      *)
(* exactly what the enumerator handed out.                                 *)
(***************************************************************************)
C24_SizeOneHoldsNothing ==
    it.sizes \subseteq {1} =>
        /\ it.alive => \A i \in 1..Len(it.buffer.slots) : it.buffer.slots[i] = Unknown
        /\ yielded = [i \in 1..enumr.cursor |-> i]

\* A second iterator of buffer size 1 yielded the last of three elements.
C24_Witness ==
    /\ it.sizes = {1}
    /\ it.made = 2
    /\ it.calls = 1
    /\ it.last = "Ok"
    /\ yielded = <<1, 2, 3>>

(***************************************************************************)
(* C28. Over an enumerator that hands out its n elements in order, short   *)
(* only at the end, and never fails, one iterator of any buffer size       *)
(* yields the n elements once each and in order and None from then on; it  *)
(* asks the enumerator for more only when it holds no element that it has  *)
(* not yielded.                                                            *)
(***************************************************************************)
C28_YieldsAllInOrderThenNone ==
    [][(enumr'.conforming /\ enumr'.errors = 0 /\ it'.made = 1 /\ it'.alive) =>
          /\ Len(yielded') <= enumr'.items
          /\ \A i \in 1..Len(yielded') : yielded'[i] = i
          /\ it'.last = "None" => Len(yielded') = enumr'.items
          /\ (Len(yielded) = enumr.items /\ it'.calls = it.calls + 1) => it'.last = "None"
          /\ (Len(yielded) < enumr.items /\ it'.calls = it.calls + 1) => it'.last = "Ok"
          /\ enumr'.fetches # enumr.fetches =>
                \A i \in 1..Len(it.buffer.slots) : it.buffer.slots[i] = Unknown]_vars

\* Three elements through a buffer of two: two fetches, then None.
C28_Witness ==
    /\ enumr.conforming
    /\ enumr.errors = 0
    /\ enumr.items = 3
    /\ enumr.fetches = 2
    /\ it.made = 1
    /\ it.alive
    /\ BufLen(it.buffer) = 2
    /\ it.last = "None"
    /\ yielded = <<1, 2, 3>>

(***************************************************************************)
(* C29. When a fetch fails, next returns Some(Err(e)) and leaves position, *)
(* length and buffer as they were; the call after it asks the enumerator   *)
(* again; no element the enumerator handed out is lost or yielded twice.   *)
(***************************************************************************)
C29_FailedFetchChangesNothing ==
    [][/\ enumr'.errors > enumr.errors =>
            /\ it'.last = "Err"
            /\ it'.position = it.position
            /\ it'.length = it.length
            /\ it'.buffer = it.buffer
            /\ yielded' = yielded
            /\ enumr'.cursor = enumr.cursor
       /\ (it.last = "Err" /\ it'.calls = it.calls + 1) =>
            enumr'.fetches = enumr.fetches + 1
       /\ (it'.made = 1 /\ it'.alive) =>
            yielded' \o [k \in 1..(it'.length - it'.position) |->
                            it'.buffer.slots[it'.position + k]]
                = [i \in 1..enumr'.cursor |-> i]]_vars

\* The refill after two yielded elements failed, and the call after it
\* fetched and yielded the third.
C29_Witness ==
    /\ enumr.errors = 1
    /\ enumr.fetches = 3
    /\ it.made = 1
    /\ it.alive
    /\ BufLen(it.buffer) = 2
    /\ it.calls = 4
    /\ it.last = "Ok"
    /\ yielded = <<1, 2, 3>>

(***************************************************************************)
(* C25. Whatever sequence of take(), free() and drop is applied to an      *)
(* ObjectProperties and to the values take() returned, the memory of the   *)
(* object it contained is freed exactly once: never twice, and once when   *)
(* no value holds it any more. take() and free() leave their source of     *)
(* type Unknown, and a value of type Unknown frees nothing.                *)
(***************************************************************************)
C25_FreedExactlyOnce ==
    [][/\ \A o \in ObjectIds :
            mem'[o].freed +
              Cardinality({p \in PropIds : /\ props'[p].state = "live"
                                           /\ OwnsMemory(props'[p])
                                           /\ props'[p].obj = o})
                = IF mem'[o].type \in {"Snapshot", "Provider"} THEN 1 ELSE 0
       /\ \A p \in PropIds :
            /\ (props[p].state = "live" /\ props'[p].state = "live"
                    /\ props'[p] # props[p])
                  => props'[p].type = "Unknown"
            /\ (props[p].state = "live" /\ props[p].type = "Unknown"
                    /\ props'[p] # props[p])
                  => mem' = mem]_vars

\* A snapshot was taken twice, the last copy dropped and both sources too:
\* its memory was freed once.
C25_Witness ==
    /\ mem[1].type = "Snapshot"
    /\ mem[1].freed = 1
    /\ Cardinality({p \in PropIds : props[p].state = "dropped" /\ props[p].obj = 1}) = 3

C26_AbortBeforeRelease ==
    /\ (flow.released /\ flow.prepared /\ ~flow.finishedOk) => flow.aborts >= 1
    /\ flow.finishedOk => flow.aborts = 0

====
